---------------------------- MODULE Spec2Model ----------------------------
(***************************************************************************)
(* A model of libideviceactivation: the request encoder, the response      *)
(* classifier and parsers of src/src/activation.c, and the activation      *)
(* loop of the command line tool src/tools/ideviceactivation.c.            *)
(*                                                                         *)
(* C strings are sequences of bytes 1..255.  A pointer that may be NULL is *)
(* a sequence of length 0 (NULL) or 1 (the object).                        *)
(***************************************************************************)
EXTENDS Integers, Sequences, FiniteSets, TLC

VARIABLES
    buf,            \* urlencode: the argument string
    res,            \* urlencode: the returned string, NULL before the call
    enc_req,        \* encoder: the request handed to the encoding part of send_request
    enc_out,        \* encoder: its outcome, NULL before the call
    char_signed,    \* build property: plain char is signed
    oob_zero,       \* build property: high bytes whose out-of-bounds table read yields 0
    request,        \* the caller's request object, or NULL
    response,       \* the caller's response variable, or NULL
    tmp_response,   \* send_request's tmp_response, or NULL
    wire,           \* what the transport still has to deliver in this transfer
    delivered,      \* what the callbacks have been given in this transfer, in order
    sent,           \* what send_request last handed to the transport, or NULL
    lpc,            \* where the library call is: "idle", "perform", "returned"
    result,         \* what the last library call returned
    pc,             \* main: the statement it is at
    exit_status,    \* main: its local result, the value it returns
    argv,                   \* main: the arguments after the program's name
    op,                     \* main: the command found among them
    udid,                   \* main: the -u argument, or NULL
    device,                 \* main: what lockdownd answered for the device's values, or NULL
    product_version,        \* main: the version read from the device
    use_mobileactivation,   \* main: the flag of that name
    session_mode,           \* main: the flag of that name
    handshake_response,     \* main: NULL before the handshake, then what get_fields left
    signing_service_url,    \* main: the -s argument, or NULL
    input,          \* main: the buffer scanf fills
    fields,         \* main: the copy of the response's fields, or NULL
    record,         \* main: the copy of the activation record, or NULL
    iter,           \* main: how many fields the prompt loop has passed
    message,        \* main: the last line it printed
    prompts,        \* main: the prompts issued in this round, in order
    applied,        \* device: what the device was activated with, or NULL
    once_control,   \* thread_once: lock and state of init_once and of deinit_once
    threads,        \* thread_once: where each thread is, in which call
    routine         \* thread_once: how often each routine was begun and ended

encvars == <<buf, res, enc_req, enc_out>>
buildvars == <<char_signed, oob_zero>>
libvars == <<request, response, tmp_response, wire, delivered, sent, lpc, result>>
toolvars == <<pc, exit_status, argv, op, udid, device, product_version,
              use_mobileactivation, session_mode, handshake_response,
              signing_service_url, input, fields, record, iter, message, prompts, applied>>
oncevars == <<once_control, threads, routine>>
vars == <<encvars, buildvars, libvars, toolvars, oncevars>>

-----------------------------------------------------------------------------
(* Bounds of the model *)

\* longest string handed to urlencode
MaxStrLen == 3
\* most fields in a request handed to the encoder
MaxFields == 2
\* most header lines of one transfer handed to the classifier
MaxHeaders == 2

-----------------------------------------------------------------------------
(* C strings *)

NULL == <<>>
Some(x) == <<x>>

\* the characters 0x20 .. 0x7E in order; the three a TLA+ string cannot hold
\* (0x22, 0x5C, 0x60) are written as a tab and never looked up
AsciiFrom32 == " !\t#$%&'()*+,-./0123456789:;<=>?@ABCDEFGHIJKLMNOPQRSTUVWXYZ[\t]^_\tabcdefghijklmnopqrstuvwxyz{|}~"

Code(c) ==
    IF c = "\n" THEN 10
    ELSE IF c = "\r" THEN 13
    ELSE IF c = "\t" THEN 9
    ELSE 31 + (CHOOSE i \in 1..Len(AsciiFrom32) : SubSeq(AsciiFrom32, i, i) = c)

\* the bytes of a string literal
Bytes(s) == [i \in 1..Len(s) |-> Code(SubSeq(s, i, i))]

\* all strings over alphabet A of length at most n
StringsUpTo(A, n) == UNION {[1..k -> A] : k \in 0..n}

\* the upper-case hexadecimal digit of a nibble, as printf("%X") writes it
HexDigit(n) == IF n < 10 THEN 48 + n ELSE 55 + n

-----------------------------------------------------------------------------
(* urlencode *)

conv_table ==
    [i \in 0..255 |->
        IF i = 31 \/ i \in 48..57 \/ i \in 65..90 \/ i \in 97..122 THEN 0 ELSE 1]

\* conv_table[(int)buf[i]]: a byte above 0x7F is a negative index where plain
\* char is signed, and the read is then outside the table
ConvLookup(b, sgn, oob) ==
    IF b < 128 THEN conv_table[b]
    ELSE IF ~sgn THEN conv_table[b]
    ELSE IF b \in oob THEN 0 ELSE 1

RECURSIVE urlencodeFrom(_, _, _, _)
urlencodeFrom(s, i, sgn, oob) ==
    IF i > Len(s) THEN <<>>
    ELSE (IF ConvLookup(s[i], sgn, oob) # 0
          THEN <<37, HexDigit(s[i] \div 16), HexDigit(s[i] % 16)>>
          ELSE <<s[i]>>) \o urlencodeFrom(s, i + 1, sgn, oob)

urlencode(s, sgn, oob) == urlencodeFrom(s, 1, sgn, oob)


-----------------------------------------------------------------------------
(* Property lists (libplist values as this library uses them).  A node is   *)
(* [t, v, sub]: t its type, v the bytes of a string or data node, sub the   *)
(* entries [k, n] of a dictionary in insertion order.                       *)

PlistString(s) == [t |-> "string", v |-> s, sub |-> <<>>]
S_true == Bytes("true")
S_false == Bytes("false")
PlistBool(b) == [t |-> "bool", v |-> IF b THEN S_true ELSE S_false, sub |-> <<>>]
PlistData(d) == [t |-> "data", v |-> d, sub |-> <<>>]
PlistDict(entries) == [t |-> "dict", v |-> <<>>, sub |-> entries]
plist_new_dict == PlistDict(<<>>)

\* a variant that looks at the first entry only
plist_dict_get_item_First(node, key) ==
    IF node = NULL THEN NULL
    ELSE IF node[1].t # "dict" THEN NULL
    ELSE IF Len(node[1].sub) > 0 /\ node[1].sub[1].k = key THEN Some(node[1].sub[1].n)
    ELSE NULL

\* plist_dict_get_item: NULL for a key that is absent and for a node that is
\* no dictionary
plist_dict_get_item(node, key) ==
    IF node = NULL THEN NULL
    ELSE IF node[1].t # "dict" THEN NULL
    ELSE LET hits == {i \in 1..Len(node[1].sub) : node[1].sub[i].k = key}
         IN  IF hits = {} THEN NULL
             ELSE Some(node[1].sub[CHOOSE i \in hits : TRUE].n)

\* plist_dict_set_item: an existing key keeps its place, a new key is appended
plist_dict_set_item(dict, key, node) ==
    LET hits == {i \in 1..Len(dict.sub) : dict.sub[i].k = key}
    IN  IF hits = {}
        THEN PlistDict(Append(dict.sub, [k |-> key, n |-> node]))
        ELSE PlistDict([i \in 1..Len(dict.sub) |->
                IF i \in hits THEN [k |-> key, n |-> node] ELSE dict.sub[i]])

RECURSIVE MergeFrom(_, _, _)
MergeFrom(target, source, i) ==
    IF i > Len(source.sub) THEN target
    ELSE MergeFrom(plist_dict_set_item(target, source.sub[i].k, source.sub[i].n), source, i + 1)

\* plist_dict_merge: every item of source is set in target, in source order
plist_dict_merge(target, source) == MergeFrom(target, source, 1)

plist_dict_get_size(dict) == Len(dict.sub)

\* the markup libplist writes
X ==
    [key |-> Bytes("<key>"),
     key_end |-> Bytes("</key>"),
     dict |-> Bytes("<dict>"),
     dict_end |-> Bytes("</dict>"),
     data |-> Bytes("<data>"),
     data_end |-> Bytes("</data>"),
     string |-> Bytes("<string>"),
     string_end |-> Bytes("</string>"),
     plist |-> Bytes("<plist version=1.0>"),
     plist_end |-> Bytes("</plist>"),
     lt |-> Bytes("<"),
     empty_end |-> Bytes("/>")]

\* plist_to_xml followed by plist_strip_xml: the bare fragment of a node
RECURSIVE XmlFragment(_)
RECURSIVE XmlEntries(_, _)
XmlEntries(entries, i) ==
    IF i > Len(entries) THEN <<>>
    ELSE X.key \o entries[i].k \o X.key_end
         \o XmlFragment(entries[i].n) \o XmlEntries(entries, i + 1)
XmlFragment(n) ==
    IF n.t = "dict" THEN X.dict \o XmlEntries(n.sub, 1) \o X.dict_end
    ELSE IF n.t = "bool" THEN X.lt \o n.v \o X.empty_end
    ELSE IF n.t = "data" THEN X.data \o n.v \o X.data_end
    ELSE X.string \o n.v \o X.string_end

\* plist_to_xml of a whole document
plist_to_xml(n) == X.plist \o XmlFragment(n) \o X.plist_end

-----------------------------------------------------------------------------
(* Requests *)

ClientTypes == {"MOBILE_ACTIVATION", "ITUNES"}
ContentTypes == {"URL_ENCODED", "MULTIPART_FORMDATA", "HTML", "BUDDYML", "PLIST", "UNKNOWN"}

IDEVICE_ACTIVATION_DEFAULT_URL == Bytes("https://albert.apple.com/deviceservices/deviceActivation")
IDEVICE_ACTIVATION_DRM_HANDSHAKE_DEFAULT_URL == Bytes("https://albert.apple.com/deviceservices/drmHandshake")
IDEVICE_ACTIVATION_USER_AGENT_IOS == Bytes("iOS Device Activator (MobileActivation-592.103.2)")
IDEVICE_ACTIVATION_USER_AGENT_ITUNES == Bytes("iTunes/11.1.4 (Macintosh; OS X 10.9.1) AppleWebKit/537.73.11")

H_ContentType_plist == Bytes("Content-Type: application/x-apple-plist")
H_Accept_xml == Bytes("Accept: application/xml")

NewRequest(client, content, u, f) ==
    [client_type |-> client, content_type |-> content, url |-> u, fields |-> f]

\* what send_request hands to the transport, or the error it stops with
Encoded(r, ua, kind, data, form, hdrs) ==
    [result |-> r, useragent |-> ua, kind |-> kind, postdata |-> data,
     form |-> form, headers |-> hdrs]
EncodeError(r) == Encoded(r, <<>>, "none", <<>>, <<>>, <<>>)

UserAgent(client) ==
    IF client = "MOBILE_ACTIVATION" THEN IDEVICE_ACTIVATION_USER_AGENT_IOS
    ELSE IDEVICE_ACTIVATION_USER_AGENT_ITUNES

\* the multipart branch: one part per field, a string verbatim, any other
\* node as its stripped XML fragment
FormParts(entries) ==
    [i \in 1..Len(entries) |->
        [name |-> entries[i].k,
         contents |-> IF entries[i].n.t = "string" THEN entries[i].n.v
                      ELSE XmlFragment(entries[i].n)]]

\* the form-urlencoded branch: "key=urlencode(value)&" per field
RECURSIVE PostdataFrom(_, _, _, _)
PostdataFrom(entries, i, sgn, oob) ==
    IF i > Len(entries) THEN <<>>
    ELSE entries[i].k \o <<61>> \o urlencode(entries[i].n.v, sgn, oob) \o <<38>>
         \o PostdataFrom(entries, i + 1, sgn, oob)

\* remove the last '&'
TrimLast(s) == IF Len(s) > 0 THEN SubSeq(s, 1, Len(s) - 1) ELSE s

\* a variant that encodes under form-urlencoded without looking at the types
EncodeRequest_NoTypeCheck(req, sgn, oob) ==
    IF req.content_type = "MULTIPART_FORMDATA"
    THEN Encoded("SUCCESS", UserAgent(req.client_type), "form", <<>>,
                 FormParts(req.fields.sub), <<>>)
    ELSE IF req.content_type = "URL_ENCODED"
    THEN Encoded("SUCCESS", UserAgent(req.client_type), "post",
                 TrimLast(PostdataFrom(req.fields.sub, 1, sgn, oob)), <<>>, <<>>)
    ELSE IF req.content_type = "PLIST"
    THEN Encoded("SUCCESS", UserAgent(req.client_type), "post",
                 plist_to_xml(req.fields), <<>>, <<>>)
    ELSE EncodeError("INTERNAL_ERROR")

\* the encoding part of idevice_activation_send_request
EncodeRequest(req, sgn, oob) ==
    IF req.client_type \notin ClientTypes THEN EncodeError("INTERNAL_ERROR")
    ELSE IF req.content_type = "MULTIPART_FORMDATA"
    THEN Encoded("SUCCESS", UserAgent(req.client_type), "form", <<>>,
                 FormParts(req.fields.sub), <<>>)
    ELSE IF req.content_type = "URL_ENCODED"
    THEN IF \E i \in 1..Len(req.fields.sub) : req.fields.sub[i].n.t # "string"
         THEN EncodeError("UNSUPPORTED_FIELD_TYPE")
         ELSE Encoded("SUCCESS", UserAgent(req.client_type), "post",
                      TrimLast(PostdataFrom(req.fields.sub, 1, sgn, oob)), <<>>, <<>>)
    ELSE IF req.content_type = "PLIST"
    THEN Encoded("SUCCESS", UserAgent(req.client_type), "post",
                 plist_to_xml(req.fields), <<>>,
                 <<H_ContentType_plist, H_Accept_xml>>)
    ELSE EncodeError("INTERNAL_ERROR")

-----------------------------------------------------------------------------
(* The build: whether plain char is signed, and what the bytes in front of  *)
(* conv_table hold                                                          *)

HighBytes == {233}
\* the control blocks as the loader leaves them, and no thread in thread_once
MaxThreads == 3
MaxCalls == 2
Threads == 1..MaxThreads
Controls == {"init_once", "deinit_once"}
OnceIdle ==
    /\ once_control = [c \in Controls |-> [lock |-> 0, state |-> 0]]
    /\ threads = [t \in Threads |-> [pc |-> "idle", control |-> "init_once", calls |-> 0]]
    /\ routine = [c \in Controls |-> [begun |-> 0, ended |-> 0]]

BuildInit == char_signed \in BOOLEAN /\ oob_zero \in SUBSET HighBytes

-----------------------------------------------------------------------------
(* urlencode applied to bounded strings *)

\* '-', '.', '_', '~', a letter, a digit, a control byte, 0x1F, '%', '&',
\* '=', ' ', a byte above 0x7F
UrlBytes == {45, 46, 95, 126, 97, 90, 48, 10, 31, 37, 38, 61, 32, 233}

EncIdle == enc_req = NULL /\ enc_out = NULL

\* no library call has been made
LibIdle ==
    /\ request = NULL
    /\ response = NULL
    /\ tmp_response = NULL
    /\ wire = <<>>
    /\ delivered = <<>>
    /\ sent = NULL
    /\ lpc = "idle"
    /\ result = "SUCCESS"

\* main has not been started
ToolIdle ==
    /\ pc = "none"
    /\ exit_status = "EXIT_FAILURE"
    /\ argv = <<>>
    /\ op = "NONE"
    /\ udid = NULL
    /\ device = NULL
    /\ product_version = 0
    /\ use_mobileactivation = FALSE
    /\ session_mode = FALSE
    /\ handshake_response = NULL
    /\ signing_service_url = NULL
    /\ input = <<>>
    /\ fields = NULL
    /\ record = NULL
    /\ iter = 0
    /\ message = ""
    /\ prompts = <<>>
    /\ applied = NULL

UrlInit ==
    /\ buf \in StringsUpTo(UrlBytes, MaxStrLen)
    /\ res = NULL
    /\ OnceIdle
    /\ EncIdle
    /\ LibIdle
    /\ ToolIdle
    /\ BuildInit

CallUrlencode ==
    /\ res = NULL
    /\ res' = Some(urlencode(buf, char_signed, oob_zero))
    /\ UNCHANGED <<buf, enc_req, enc_out, buildvars, oncevars, libvars, toolvars>>

UrlNext == CallUrlencode
UrlSpec == UrlInit /\ [][UrlNext]_vars

-----------------------------------------------------------------------------
(* The encoder applied to bounded requests *)

EncKeys == {Bytes("login"), Bytes("a&b"), Bytes("p=q")}
EncValues ==
    {PlistString(<<>>), PlistString(Bytes("a b")), PlistString(<<37, 233>>),
     PlistDict(<<[k |-> Bytes("x"), n |-> PlistBool(TRUE)]>>)}

\* dictionaries of at most n entries with distinct keys
DictsUpTo(K, V, n) ==
    {PlistDict(e) : e \in
        {s \in UNION {[1..m -> [k : K, n : V]] : m \in 0..n} :
            \A i, j \in 1..Len(s) : i # j => s[i].k # s[j].k}}

EncInit ==
    /\ buf = <<>>
    /\ res = NULL
    /\ OnceIdle
    /\ enc_req \in {Some(NewRequest(c, t, IDEVICE_ACTIVATION_DEFAULT_URL, f)) :
                        c \in ClientTypes, t \in ContentTypes,
                        f \in DictsUpTo(EncKeys, EncValues, MaxFields)}
    /\ enc_out = NULL
    /\ LibIdle
    /\ ToolIdle
    /\ BuildInit

CallEncode ==
    /\ enc_req # NULL
    /\ enc_out = NULL
    /\ enc_out' = Some(EncodeRequest(enc_req[1], char_signed, oob_zero))
    /\ UNCHANGED <<buf, res, enc_req, buildvars, oncevars, libvars, toolvars>>

EncNext == CallEncode
EncSpec == EncInit /\ [][EncNext]_vars

-----------------------------------------------------------------------------
(* Claims about urlencode and the encoder *)

IsAlnum(b) == b \in 48..57 \/ b \in 65..90 \/ b \in 97..122
IsUnreserved(b) == IsAlnum(b) \/ b \in {45, 95, 46, 126}

\* the encoding RFC 3986 describes: unreserved bytes verbatim, the rest %XX
RECURSIVE PercentEncoded(_)
PercentEncoded(s) ==
    IF s = <<>> THEN <<>>
    ELSE (IF IsUnreserved(Head(s)) THEN <<Head(s)>>
          ELSE <<37, HexDigit(Head(s) \div 16), HexDigit(Head(s) % 16)>>)
         \o PercentEncoded(Tail(s))

\* C8: urlencode leaves a byte unchanged exactly when it is an ASCII letter,
\* an ASCII digit or one of '-', '_', '.', '~', and replaces every other byte
\* 1..255 by '%' and its two upper-case hexadecimal digits.
C8_UrlencodeUnreserved == res # NULL => res[1] = PercentEncoded(buf)

IsHexDigit(b) == b \in 48..57 \/ b \in 65..70 \/ b \in 97..102
HexVal(b) == IF b \in 48..57 THEN b - 48 ELSE IF b \in 65..70 THEN b - 55 ELSE b - 87

RECURSIVE PercentDecode(_)
PercentDecode(s) ==
    IF s = <<>> THEN <<>>
    ELSE IF Head(s) = 37 /\ Len(s) >= 3 /\ IsHexDigit(s[2]) /\ IsHexDigit(s[3])
    THEN <<16 * HexVal(s[2]) + HexVal(s[3])>> \o PercentDecode(SubSeq(s, 4, Len(s)))
    ELSE <<Head(s)>> \o PercentDecode(Tail(s))

\* the pieces of s between occurrences of the byte sep
RECURSIVE SplitOn(_, _)
SplitOn(s, sep) ==
    IF \A i \in 1..Len(s) : s[i] # sep THEN <<s>>
    ELSE LET i == CHOOSE j \in 1..Len(s) : s[j] = sep /\ \A h \in 1..(j - 1) : s[h] # sep
         IN  <<SubSeq(s, 1, i - 1)>> \o SplitOn(SubSeq(s, i + 1, Len(s)), sep)

\* key and value of one "key=value" pair, cut at its first '='
PairOf(p) ==
    LET parts == SplitOn(p, 61)
    IN  <<PercentDecode(parts[1]),
          PercentDecode(IF Len(p) > Len(parts[1])
                        THEN SubSeq(p, Len(parts[1]) + 2, Len(p)) ELSE <<>>)>>

\* the map a form-urlencoded body decodes to
DecodedMap(body) ==
    IF body = <<>> THEN {}
    ELSE LET pairs == SplitOn(body, 38) IN {PairOf(pairs[i]) : i \in 1..Len(pairs)}

FieldMap(dict) == {<<dict.sub[i].k, dict.sub[i].n.v>> : i \in 1..Len(dict.sub)}
AllStrings(dict) == \A i \in 1..Len(dict.sub) : dict.sub[i].n.t = "string"

Encoded_UrlEncoded ==
    /\ enc_out # NULL
    /\ enc_req[1].content_type = "URL_ENCODED"

\* C7: for every field set whose values are all strings, the form-urlencoded
\* body, split on '&' into key=value pairs and percent-decoded, is exactly
\* the original key-to-value map.
C7_FormRoundTrip ==
    (Encoded_UrlEncoded /\ AllStrings(enc_req[1].fields))
        => /\ enc_out[1].result = "SUCCESS"
           /\ DecodedMap(enc_out[1].postdata) = FieldMap(enc_req[1].fields)

\* C6: a field set with a non-string value fails with UNSUPPORTED_FIELD_TYPE
\* under form-urlencoded, and is encoded without that error under
\* multipart-form and structured-document.
C6_UnsupportedFieldType ==
    (enc_out # NULL /\ ~AllStrings(enc_req[1].fields))
        => /\ enc_req[1].content_type = "URL_ENCODED"
                => enc_out[1].result = "UNSUPPORTED_FIELD_TYPE"
           /\ enc_req[1].content_type \in {"MULTIPART_FORMDATA", "PLIST"}
                => enc_out[1].result = "SUCCESS"

C6_Witness ==
    /\ Encoded_UrlEncoded
    /\ ~AllStrings(enc_req[1].fields)
    /\ Len(enc_req[1].fields.sub) = 2
    /\ enc_out[1].result = "UNSUPPORTED_FIELD_TYPE"

-----------------------------------------------------------------------------
(* Responses and the transport callbacks *)

\* a variant whose new response already holds a field
idevice_activation_response_new_Seeded ==
    [raw_content |-> <<>>,
     content_type |-> "UNKNOWN",
     title |-> NULL,
     description |-> NULL,
     activation_record |-> NULL,
     headers |-> plist_new_dict,
     fields |-> Some(PlistDict(<<[k |-> Bytes("guid"), n |-> PlistString(Bytes("1"))]>>)),
     fields_require_input |-> plist_new_dict,
     fields_secure_input |-> plist_new_dict,
     labels |-> plist_new_dict,
     labels_placeholder |-> plist_new_dict,
     is_activation_ack |-> FALSE,
     is_auth_required |-> FALSE,
     has_errors |-> FALSE]

\* idevice_activation_response_new
idevice_activation_response_new ==
    [raw_content |-> <<>>,
     content_type |-> "UNKNOWN",
     title |-> NULL,
     description |-> NULL,
     activation_record |-> NULL,
     headers |-> plist_new_dict,
     fields |-> Some(plist_new_dict),
     fields_require_input |-> plist_new_dict,
     fields_secure_input |-> plist_new_dict,
     labels |-> plist_new_dict,
     labels_placeholder |-> plist_new_dict,
     is_activation_ack |-> FALSE,
     is_auth_required |-> FALSE,
     has_errors |-> FALSE]

raw_content_size(resp) == Len(resp.raw_content)

\* what the transport hands to a callback
HeaderEvent(line) == [kind |-> "header", data |-> line]
BodyEvent(chunk) == [kind |-> "body", data |-> chunk]

\* a variant that keeps the latest chunk only
idevice_activation_write_callback_Latest(resp, data) ==
    IF Len(data) # 0 THEN [resp EXCEPT !.raw_content = data] ELSE resp

\* idevice_activation_write_callback
idevice_activation_write_callback(resp, data) ==
    IF Len(data) # 0 THEN [resp EXCEPT !.raw_content = @ \o data] ELSE resp

Min(a, b) == IF a < b THEN a ELSE b
ToLower(b) == IF b \in 65..90 THEN b + 32 ELSE b

\* strncasecmp(a, b, n) == 0
StrNCaseEq(a, b, n) ==
    /\ Min(Len(a), n) = Min(Len(b), n)
    /\ \A i \in 1..Min(Len(a), n) : ToLower(a[i]) = ToLower(b[i])

\* strchr: the index of the first c in s, 0 when there is none
StrChr(s, c) ==
    IF \A i \in 1..Len(s) : s[i] # c THEN 0
    ELSE CHOOSE i \in 1..Len(s) : s[i] = c /\ \A j \in 1..(i - 1) : s[j] # c

\* F applied to the value of x, with x worked out once
Bind(x, F(_)) == CHOOSE r \in {F(v) : v \in {x}} : TRUE

\* the header string once '\0' is written over the first ':'
HeaderName(data) ==
    Bind(StrChr(data, 58), LAMBDA colon : IF colon = 0 THEN data ELSE SubSeq(data, 1, colon - 1))

\* the index of the first byte of s at or after from that is not a space,
\* Len(s) + 1 when there is none
SkipSpaces(s, from) ==
    IF \A i \in from..Len(s) : s[i] = 32 THEN Len(s) + 1
    ELSE CHOOSE i \in from..Len(s) : s[i] # 32 /\ \A j \in from..(i - 1) : s[j] = 32

\* the index of the first '\n' or '\r' of s at or after from, Len(s) + 1 when
\* there is none
LineEnd(s, from) ==
    IF \A i \in from..Len(s) : s[i] \notin {10, 13} THEN Len(s) + 1
    ELSE CHOOSE i \in from..Len(s) :
             s[i] \in {10, 13} /\ \A j \in from..(i - 1) : s[j] \notin {10, 13}

\* value: NULL without a ':' and when only spaces follow it; otherwise the
\* text after the spaces up to the first '\n' or '\r'
HeaderValue(data) ==
    Bind(StrChr(data, 58), LAMBDA colon :
        IF colon = 0 THEN NULL
        ELSE Bind(SkipSpaces(data, colon + 1), LAMBDA start :
                 IF start > Len(data) THEN NULL
                 ELSE Some(SubSeq(data, start, LineEnd(data, start) - 1))))

\* the strings the header callback compares with
CT ==
    [text_xml |-> Bytes("text/xml"),
     application_xml |-> Bytes("application/xml"),
     application_x_buddyml |-> Bytes("application/x-buddyml"),
     text_html |-> Bytes("text/html"),
     Content_Type |-> Bytes("Content-Type")]

\* a variant that compares the whole value instead of its beginning
ContentTypeOf_Exact(value, cur) ==
    IF value = CT.text_xml THEN "PLIST"
    ELSE IF value = CT.application_xml THEN "PLIST"
    ELSE IF value = CT.application_x_buddyml THEN "BUDDYML"
    ELSE IF value = CT.text_html THEN "HTML"
    ELSE cur

\* the dialect a Content-Type value selects; cur when it selects none
ContentTypeOf(value, cur) ==
    IF StrNCaseEq(value, CT.text_xml, 8) THEN "PLIST"
    ELSE IF StrNCaseEq(value, CT.application_xml, 15) THEN "PLIST"
    ELSE IF StrNCaseEq(value, CT.application_x_buddyml, 21) THEN "BUDDYML"
    ELSE IF StrNCaseEq(value, CT.text_html, 9) THEN "HTML"
    ELSE cur

\* the test that makes a line a Content-Type header
IsContentTypeName(header) == StrNCaseEq(header, CT.Content_Type, 12)

\* a variant in which every Content-Type header decides anew
idevice_activation_header_callback_Reset(resp, data) ==
    IF Len(data) = 0 THEN resp
    ELSE Bind(<<HeaderName(data), HeaderValue(data)>>, LAMBDA line :
             LET header == line[1]
                 value  == line[2]
             IN  IF value = NULL THEN resp
                 ELSE [resp EXCEPT
                         !.content_type =
                            IF IsContentTypeName(header)
                            THEN ContentTypeOf(value[1], "UNKNOWN") ELSE @,
                         !.headers = plist_dict_set_item(@, header, PlistString(value[1]))])

\* idevice_activation_header_callback
idevice_activation_header_callback(resp, data) ==
    IF Len(data) = 0 THEN resp
    ELSE Bind(<<HeaderName(data), HeaderValue(data)>>, LAMBDA line :
             LET header == line[1]
                 value  == line[2]
             IN  IF value = NULL THEN resp
                 ELSE [resp EXCEPT
                         !.content_type =
                            IF IsContentTypeName(header)
                            THEN ContentTypeOf(value[1], @) ELSE @,
                         !.headers = plist_dict_set_item(@, header, PlistString(value[1]))])

\* the transport delivers the next header line
HeaderCallback ==
    /\ lpc = "perform"
    /\ wire # <<>>
    /\ Head(wire).kind = "header"
    /\ tmp_response' = Some(idevice_activation_header_callback(tmp_response[1], Head(wire).data))
    /\ wire' = Tail(wire)
    /\ delivered' = Append(delivered, Head(wire))
    /\ UNCHANGED <<request, response, sent, lpc, result>>

\* the transport delivers the next piece of the body
WriteCallback ==
    /\ lpc = "perform"
    /\ wire # <<>>
    /\ Head(wire).kind = "body"
    /\ tmp_response' = Some(idevice_activation_write_callback(tmp_response[1], Head(wire).data))
    /\ wire' = Tail(wire)
    /\ delivered' = Append(delivered, Head(wire))
    /\ UNCHANGED <<request, response, sent, lpc, result>>

-----------------------------------------------------------------------------
(* The classifier applied to bounded sequences of header lines *)

HeaderLines ==
    {Bytes("HTTP/1.1 200 OK\r\n"),
     Bytes("\r\n"),
     Bytes("Content-Type: text/xml\r\n"),
     Bytes("Content-Type: application/xml; charset=utf-8\r\n"),
     Bytes("content-type:application/x-buddyml; charset=utf-8\r\n"),
     Bytes("Content-Type: application/x-buddyml\r\n"),
     Bytes("Content-Type: text/html\r\n"),
     Bytes("CONTENT-TYPE:   TEXT/HTML; charset=UTF-8"),
     Bytes("Content-Type: application/json\r\n"),
     Bytes("Content-Type: text/xm\r\n"),
     Bytes("Content-Type: xtext/html\r\n"),
     Bytes("Content-Type:\r\n"),
     Bytes("Content-Type:  "),
     Bytes("Content-Length: 2\r\n"),
     Bytes("X-Content-Type: text/html\r\n"),
     Bytes("Set-Cookie: a=b: c\r\n"),
     Bytes("Set-Cookie: d\r\n")}

ClsInit ==
    /\ buf = <<>>
    /\ res = NULL
    /\ OnceIdle
    /\ EncIdle
    /\ BuildInit
    /\ request = NULL
    /\ response = NULL
    /\ tmp_response = Some(idevice_activation_response_new)
    /\ wire \in UNION {{[i \in 1..n |-> HeaderEvent(l[i])] : l \in [1..n -> HeaderLines]} :
                          n \in 0..MaxHeaders}
    /\ delivered = <<>>
    /\ sent = NULL
    /\ lpc = "perform"
    /\ result = "SUCCESS"
    /\ ToolIdle

ClsHeader == HeaderCallback /\ UNCHANGED <<encvars, buildvars, oncevars, toolvars>>

ClsNext == ClsHeader
ClsSpec == ClsInit /\ [][ClsNext]_vars

-----------------------------------------------------------------------------
(* Claims about the classifier *)

\* the beginning of string s is p, letter case ignored
StartsWithCI(s, p) ==
    /\ Len(s) >= Len(p)
    /\ \A i \in 1..Len(p) : ToLower(s[i]) = ToLower(p[i])

\* the dialect the claim assigns to a Content-Type value
ClaimedDialect(value) ==
    IF StartsWithCI(value, CT.text_xml) \/ StartsWithCI(value, CT.application_xml)
    THEN "PLIST"
    ELSE IF StartsWithCI(value, CT.application_x_buddyml) THEN "BUDDYML"
    ELSE IF StartsWithCI(value, CT.text_html) THEN "HTML"
    ELSE "UNKNOWN"

\* the delivered header lines that are Content-Type headers with a value
ContentTypeLines ==
    {i \in 1..Len(delivered) :
        /\ delivered[i].kind = "header"
        /\ IsContentTypeName(HeaderName(delivered[i].data))
        /\ HeaderValue(delivered[i].data) # NULL}

\* C9: when the transfer has delivered one Content-Type header, the dialect
\* is the one its value selects: text/xml and application/xml the
\* structured-document dialect, application/x-buddyml (with or without
\* parameters) the proprietary-form dialect, text/html the HTML dialect, and
\* any other value "unknown".
C9_DialectFromContentType ==
    \A i \in ContentTypeLines :
        ContentTypeLines = {i}
            => tmp_response[1].content_type
                 = ClaimedDialect(HeaderValue(delivered[i].data)[1])

C9_Witness ==
    /\ Len(delivered) = 2
    /\ \E i \in ContentTypeLines :
          /\ ContentTypeLines = {i}
          /\ HeaderValue(delivered[i].data)[1] = Bytes("application/x-buddyml; charset=utf-8")
    /\ tmp_response[1].content_type = "BUDDYML"

-----------------------------------------------------------------------------
(* The response parsers *)

\* what a parser returns, and the response as it leaves it
Ret(r, resp) == [result |-> r, resp |-> resp]

\* keys the parsers look up
K ==
    [ActivationRecord |-> Bytes("ActivationRecord"),
     ack_received |-> Bytes("ack-received"),
     iphone_activation |-> Bytes("iphone-activation"),
     device_activation |-> Bytes("device-activation"),
     activation_record |-> Bytes("activation-record"),
     HandshakeResponseMessage |-> Bytes("HandshakeResponseMessage"),
     isAuthRequired |-> Bytes("isAuthRequired")]

\* plist_get_bool_val into a uint8_t that starts as 0
plist_get_bool_val(node) == node.t = "bool" /\ node.v = S_true

AckReceived(node) ==
    LET ack_received == plist_dict_get_item(node, K.ack_received)
    IN  ack_received # NULL /\ plist_get_bool_val(ack_received[1])

\* a variant that keeps a record apart from an acknowledgment
idevice_activation_activation_record_from_plist_Exclusive(resp, plist) ==
    LET record_node == plist_dict_get_item(plist, K.ActivationRecord)
    IN  IF record_node # NULL
        THEN IF AckReceived(record_node)
             THEN Ret("SUCCESS", [resp EXCEPT !.is_activation_ack = TRUE])
             ELSE Ret("SUCCESS", [resp EXCEPT
                        !.activation_record = Some(PlistData(resp.raw_content))])
        ELSE Ret("PLIST_PARSING_ERROR", resp)

\* idevice_activation_activation_record_from_plist
idevice_activation_activation_record_from_plist(resp, plist) ==
    LET record_node == plist_dict_get_item(plist, K.ActivationRecord)
    IN  IF record_node # NULL
        THEN Ret("SUCCESS",
                 [resp EXCEPT
                    !.is_activation_ack = IF AckReceived(record_node) THEN TRUE ELSE @,
                    !.activation_record = Some(PlistData(resp.raw_content))])
        ELSE LET first == plist_dict_get_item(plist, K.iphone_activation)
                 activation_node ==
                    IF first = NULL THEN plist_dict_get_item(plist, K.device_activation)
                    ELSE first
                 legacy == plist_dict_get_item(activation_node, K.activation_record)
             IN  IF activation_node = NULL THEN Ret("PLIST_PARSING_ERROR", resp)
                 ELSE Ret("SUCCESS",
                          [resp EXCEPT
                             !.is_activation_ack =
                                IF AckReceived(activation_node) THEN TRUE ELSE @,
                             !.activation_record = IF legacy # NULL THEN legacy ELSE @])

\* a variant that flags every field that requires input as secure
idevice_activation_response_add_field_Flagged(resp, key, value, required_input, secure_input) ==
    [resp EXCEPT
        !.fields = Some(plist_dict_set_item(@[1], key, PlistString(value))),
        !.fields_require_input =
            IF required_input THEN plist_dict_set_item(@, key, PlistBool(TRUE)) ELSE @,
        !.fields_secure_input =
            IF required_input THEN plist_dict_set_item(@, key, PlistBool(TRUE)) ELSE @]

\* idevice_activation_response_add_field
idevice_activation_response_add_field(resp, key, value, required_input, secure_input) ==
    [resp EXCEPT
        !.fields = Some(plist_dict_set_item(@[1], key, PlistString(value))),
        !.fields_require_input =
            IF required_input THEN plist_dict_set_item(@, key, PlistBool(TRUE)) ELSE @,
        !.fields_secure_input =
            IF secure_input THEN plist_dict_set_item(@, key, PlistBool(TRUE)) ELSE @]

\* an XPath result: nodesetval is NULL (null), or holds the nodes
NodeSet(nodes) == [null |-> FALSE, nodes |-> nodes]
NullNodeSet == [null |-> TRUE, nodes |-> <<>>]
\* nodesetval && nodesetval->nodeNr
HasNodes(ns) == ~ns.null /\ Len(ns.nodes) > 0

\* response->title after "if (content) title = strdup(content)"
WithTitle(resp, node) ==
    IF node.content # NULL THEN [resp EXCEPT !.title = node.content] ELSE resp

\* the footer texts, each followed by '\n'
RECURSIVE DescriptionFrom(_, _)
DescriptionFrom(nodes, i) ==
    IF i > Len(nodes) THEN <<>>
    ELSE (IF nodes[i].content # NULL THEN nodes[i].content[1] \o <<10>> ELSE <<>>)
         \o DescriptionFrom(nodes, i + 1)

WithDescription(resp, nodes) ==
    LET response_description == DescriptionFrom(nodes, 1)
    IN  IF Len(response_description) > 0
        THEN [resp EXCEPT !.description = Some(TrimLast(response_description))]
        ELSE resp

\* a variant that files the label and the placeholder under their own text
WithLabels_Text(resp, row) ==
    [resp EXCEPT
        !.labels = IF row.label # NULL
                   THEN plist_dict_set_item(@, row.label[1], PlistString(row.label[1]))
                   ELSE @,
        !.labels_placeholder =
                   IF row.placeholder # NULL
                   THEN plist_dict_set_item(@, row.placeholder[1], PlistString(row.placeholder[1]))
                   ELSE @]

\* the label and the placeholder of an input row, filed under the row's id
WithLabels(resp, row) ==
    [resp EXCEPT
        !.labels = IF row.label # NULL
                   THEN plist_dict_set_item(@, row.id[1], PlistString(row.label[1]))
                   ELSE @,
        !.labels_placeholder =
                   IF row.placeholder # NULL
                   THEN plist_dict_set_item(@, row.id[1], PlistString(row.placeholder[1]))
                   ELSE @]

\* the loop over the editableTextRow nodes
RECURSIVE InputRowsFrom(_, _, _)
InputRowsFrom(resp, nodes, i) ==
    IF i > Len(nodes) THEN Ret("SUCCESS", resp)
    ELSE IF nodes[i].id = NULL THEN Ret("BUDDYML_PARSING_ERROR", resp)
    ELSE LET id == nodes[i].id[1]
             secure_input == nodes[i].secure # NULL /\ nodes[i].secure[1] = S_true
             added == idevice_activation_response_add_field(resp, id, <<>>, TRUE, secure_input)
         IN  InputRowsFrom(WithLabels(added, nodes[i]), nodes, i + 1)

\* the loop over the attributes of serverInfo
RECURSIVE ServerInfoFrom(_, _, _)
ServerInfoFrom(resp, nodes, i) ==
    IF i > Len(nodes) THEN resp
    ELSE IF nodes[i].content = NULL THEN ServerInfoFrom(resp, nodes, i + 1)
    ELSE ServerInfoFrom(
            idevice_activation_response_add_field(
                [resp EXCEPT !.is_auth_required =
                    IF nodes[i].name = K.isAuthRequired THEN TRUE ELSE @],
                nodes[i].name, nodes[i].content[1], FALSE, FALSE),
            nodes, i + 1)

\* a variant that leaves the server info out
BuddymlFields_NoInfo(resp, doc) ==
    LET rows == IF doc.rows.null THEN Ret("SUCCESS", resp)
                ELSE InputRowsFrom(resp, doc.rows.nodes, 1)
    IN  IF rows.result # "SUCCESS" THEN rows
        ELSE Ret("SUCCESS",
                 [rows.resp EXCEPT !.has_errors =
                    IF plist_dict_get_size(rows.resp.fields[1]) = 0 THEN TRUE ELSE @])

\* the end of the BuddyML parser: input rows, server info, the empty check
BuddymlFields(resp, doc) ==
    LET rows == IF doc.rows.null THEN Ret("SUCCESS", resp)
                ELSE InputRowsFrom(resp, doc.rows.nodes, 1)
        info == IF doc.server_info.null THEN rows.resp
                ELSE ServerInfoFrom(rows.resp, doc.server_info.nodes, 1)
    IN  IF rows.result # "SUCCESS" THEN rows
        ELSE Ret("SUCCESS",
                 [info EXCEPT !.has_errors =
                    IF plist_dict_get_size(info.fields[1]) = 0 THEN TRUE ELSE @])

\* the middle of the BuddyML parser: the description
BuddymlDescription(resp, doc) ==
    IF doc.footers.null THEN Ret("INTERNAL_ERROR", resp)
    ELSE BuddymlFields(WithDescription(resp, doc.footers.nodes), doc)

\* the title of a response that is neither an error screen nor an ack
BuddymlTitle(resp, doc) ==
    IF HasNodes(doc.alert_title)
    THEN BuddymlDescription(WithTitle(resp, doc.alert_title.nodes[1]), doc)
    ELSE IF doc.page_nav_title.null THEN Ret("BUDDYML_PARSING_ERROR", resp)
    ELSE IF Len(doc.page_nav_title.nodes) = 0
    THEN Ret("CRASH", resp)        \* nodeTab[0] of an empty node set
    ELSE BuddymlDescription(WithTitle(resp, doc.page_nav_title.nodes[1]), doc)

\* a variant that notes the acknowledgment and goes on
BuddymlAck_GoOn(resp, doc) ==
    IF HasNodes(doc.client_info_ack)
    THEN BuddymlTitle([resp EXCEPT !.is_activation_ack = TRUE], doc)
    ELSE BuddymlTitle(resp, doc)

\* the acknowledgment check of the BuddyML parser, after the error screen
BuddymlAck(resp, doc) ==
    IF HasNodes(doc.client_info_ack)
    THEN Ret("SUCCESS", [resp EXCEPT !.is_activation_ack = TRUE])
    ELSE BuddymlTitle(resp, doc)

\* a variant that looks for the acknowledgment before the error screen
idevice_activation_parse_buddyml_response_AckFirst(resp, parsed) ==
    IF resp.content_type # "BUDDYML" THEN Ret("UNKNOWN_CONTENT_TYPE", resp)
    ELSE IF parsed = NULL THEN Ret("BUDDYML_PARSING_ERROR", resp)
    ELSE LET doc == parsed[1]
         IN  IF HasNodes(doc.client_info_ack)
             THEN Ret("SUCCESS", [resp EXCEPT !.is_activation_ack = TRUE])
             ELSE IF HasNodes(doc.root_nav_title)
             THEN Ret("SUCCESS",
                      [WithTitle(resp, doc.root_nav_title.nodes[1]) EXCEPT !.has_errors = TRUE])
             ELSE BuddymlTitle(resp, doc)

\* idevice_activation_parse_buddyml_response, given xmlReadMemory's document
idevice_activation_parse_buddyml_response(resp, parsed) ==
    IF resp.content_type # "BUDDYML" THEN Ret("UNKNOWN_CONTENT_TYPE", resp)
    ELSE IF parsed = NULL THEN Ret("BUDDYML_PARSING_ERROR", resp)
    ELSE LET doc == parsed[1]
         IN  IF HasNodes(doc.root_nav_title)
             THEN Ret("SUCCESS",
                      [WithTitle(resp, doc.root_nav_title.nodes[1]) EXCEPT !.has_errors = TRUE])
             ELSE BuddymlAck(resp, doc)

-----------------------------------------------------------------------------
(* Sample bodies.  libplist and libxml2 are outside this library: a body is *)
(* its bytes together with what plist_from_xml, xmlReadMemory and           *)
(* xmlReadMemory with XML_PARSE_RECOVER make of them, the XML documents     *)
(* given by the results of the XPath expressions the parsers evaluate.      *)

XmlDoc(rootnav, ack, alert, pagenav, footers, rows, srv, auth, script) ==
    [root_nav_title |-> rootnav, client_info_ack |-> ack, alert_title |-> alert,
     page_nav_title |-> pagenav, footers |-> footers, rows |-> rows,
     server_info |-> srv, auth_input |-> auth, plist_script |-> script]

\* a document in which no expression selects anything
BlankDoc ==
    XmlDoc(NullNodeSet, NullNodeSet, NullNodeSet, NullNodeSet, NullNodeSet,
           NullNodeSet, NullNodeSet, NullNodeSet, NullNodeSet)

Attr(text) == [content |-> IF text = <<>> THEN NULL ELSE Some(text)]
Row(id, secure, label, placeholder) ==
    [id |-> id, secure |-> secure, label |-> label, placeholder |-> placeholder]
InfoAttr(name, text) == [name |-> name, content |-> Some(text)]
Script(dump) == [dump |-> dump]

LoginRow == Row(Some(Bytes("login")), NULL, Some(Bytes("Apple ID")), NULL)
PasswordRow == Row(Some(Bytes("password")), Some(S_true), NULL, Some(Bytes("required")))

Body(raw, plist, xml, html) == [raw |-> raw, plist |-> plist, xml |-> xml, html |-> html]

\* a property list is well-formed XML in which the parsers' expressions find nothing
PlistBody(raw, plist) == Body(raw, Some(plist), Some(BlankDoc), Some(BlankDoc))
\* a BuddyML page is no property list
BuddymlBody(raw, doc) == Body(raw, NULL, Some(doc), Some(doc))
\* an HTML page is no well-formed XML
HtmlBody(raw, doc) == Body(raw, NULL, NULL, Some(doc))

SomeRecord == PlistDict(<<[k |-> Bytes("AccountToken"), n |-> PlistData(Bytes("tok"))]>>)
Entry(key, node) == [k |-> key, n |-> node]

PlistBodies ==
    {PlistBody(Bytes("P1"),
        PlistDict(<<Entry(K.ActivationRecord,
                          PlistDict(<<Entry(K.ack_received, PlistBool(TRUE))>>))>>)),
     PlistBody(Bytes("P2"), PlistDict(<<Entry(K.ActivationRecord, SomeRecord)>>)),
     PlistBody(Bytes("P3"),
        PlistDict(<<Entry(K.iphone_activation,
                          PlistDict(<<Entry(K.ack_received, PlistBool(TRUE))>>))>>)),
     PlistBody(Bytes("P4"),
        PlistDict(<<Entry(K.device_activation,
                          PlistDict(<<Entry(K.activation_record, SomeRecord)>>))>>)),
     PlistBody(Bytes("P5"),
        PlistDict(<<Entry(K.iphone_activation,
                          PlistDict(<<Entry(K.ack_received, PlistBool(TRUE)),
                                      Entry(K.activation_record, SomeRecord)>>))>>)),
     PlistBody(Bytes("P6"),
        PlistDict(<<Entry(K.iphone_activation,
                          PlistDict(<<Entry(Bytes("show-settings"), PlistBool(TRUE))>>))>>)),
     PlistBody(Bytes("P7"),
        PlistDict(<<Entry(K.HandshakeResponseMessage, PlistData(Bytes("hs"))),
                    Entry(Bytes("serverKP"), PlistData(Bytes("kp")))>>)),
     PlistBody(Bytes("P8"), PlistDict(<<Entry(Bytes("foo"), PlistString(Bytes("bar")))>>)),
     PlistBody(Bytes("P9"),
        PlistDict(<<Entry(K.ActivationRecord,
                          PlistDict(<<Entry(K.ack_received, PlistBool(FALSE))>>))>>)),
     PlistBody(Bytes("PA"),
        PlistDict(<<Entry(K.ActivationRecord, PlistString(S_true))>>)),
     PlistBody(Bytes("PB"), PlistString(Bytes("ActivationRecord"))),
     PlistBody(Bytes("PF"),
        PlistDict(<<Entry(K.ActivationRecord, SomeRecord),
                    Entry(K.iphone_activation,
                          PlistDict(<<Entry(Bytes("show-settings"), PlistBool(TRUE))>>))>>)),
     PlistBody(Bytes("PE"),
        PlistDict(<<Entry(K.HandshakeResponseMessage, PlistData(Bytes("hs"))),
                    Entry(K.ActivationRecord,
                          PlistDict(<<Entry(K.ack_received, PlistBool(TRUE))>>))>>)),
     PlistBody(Bytes("PD"),
        PlistDict(<<Entry(Bytes("foo"), PlistString(Bytes("bar"))),
                    Entry(K.ActivationRecord,
                          PlistDict(<<Entry(Bytes("AccountToken"), PlistData(Bytes("tok"))),
                                      Entry(K.ack_received, PlistBool(TRUE))>>))>>)),
     PlistBody(Bytes("PC"),
        PlistDict(<<Entry(K.device_activation,
                          PlistDict(<<Entry(K.ack_received, PlistString(S_true))>>)),
                    Entry(Bytes("login"), PlistString(<<>>))>>))}

BuddymlBodies ==
    {\* an error screen and nothing else
     BuddymlBody(Bytes("B1"),
        [BlankDoc EXCEPT !.root_nav_title = NodeSet(<<Attr(Bytes("Error Title"))>>)]),
     \* an error screen on top of a complete page
     BuddymlBody(Bytes("B2"),
        XmlDoc(NodeSet(<<Attr(Bytes("Error Title"))>>), NodeSet(<<Attr(<<>>)>>),
               NodeSet(<<Attr(Bytes("Sign In"))>>), NodeSet(<<Attr(Bytes("Sign In"))>>),
               NodeSet(<<Attr(Bytes("Enter your password"))>>), NodeSet(<<LoginRow>>),
               NodeSet(<<InfoAttr(Bytes("guid"), Bytes("1"))>>), NullNodeSet, NullNodeSet)),
     \* an error screen whose title attribute is empty
     BuddymlBody(Bytes("B3"),
        [BlankDoc EXCEPT !.root_nav_title = NodeSet(<<Attr(<<>>)>>)]),
     \* an acknowledgment on top of a complete page
     BuddymlBody(Bytes("B4"),
        XmlDoc(NodeSet(<<>>), NodeSet(<<Attr(<<>>)>>),
               NodeSet(<<Attr(Bytes("Sign In"))>>), NodeSet(<<Attr(Bytes("Sign In"))>>),
               NodeSet(<<Attr(Bytes("Enter your password"))>>), NodeSet(<<LoginRow>>),
               NodeSet(<<InfoAttr(K.isAuthRequired, S_true)>>), NullNodeSet, NullNodeSet)),
     \* a sign-in form
     BuddymlBody(Bytes("B5"),
        XmlDoc(NodeSet(<<>>), NodeSet(<<>>), NodeSet(<<>>), NodeSet(<<Attr(Bytes("Sign In"))>>),
               NodeSet(<<Attr(Bytes("Enter your password")), Attr(<<>>), Attr(Bytes("to continue"))>>),
               NodeSet(<<LoginRow, PasswordRow>>),
               NodeSet(<<InfoAttr(K.isAuthRequired, S_true), InfoAttr(Bytes("guid"), Bytes("1"))>>),
               NullNodeSet, NullNodeSet)),
     \* wrong credentials: an alert and the form again
     BuddymlBody(Bytes("B6"),
        XmlDoc(NullNodeSet, NullNodeSet, NodeSet(<<Attr(Bytes("Wrong"))>>),
               NodeSet(<<Attr(Bytes("Sign In"))>>), NodeSet(<<>>),
               NodeSet(<<Row(Some(Bytes("password")), Some(Bytes("TRUE")), NULL, NULL)>>),
               NodeSet(<<>>), NullNodeSet, NullNodeSet)),
     \* a page without anything the parser extracts
     BuddymlBody(Bytes("B7"), BlankDoc),
     \* a page whose navigation bar has no title
     BuddymlBody(Bytes("B8"),
        [BlankDoc EXCEPT !.page_nav_title = NodeSet(<<>>), !.footers = NodeSet(<<>>)]),
     \* a titled page without rows and server info
     BuddymlBody(Bytes("B9"),
        [BlankDoc EXCEPT !.page_nav_title = NodeSet(<<Attr(Bytes("Sign In"))>>),
                         !.footers = NodeSet(<<Attr(Bytes("Enter your password"))>>),
                         !.rows = NodeSet(<<>>)]),
     \* a row without id after a good one
     BuddymlBody(Bytes("BA"),
        [BlankDoc EXCEPT !.page_nav_title = NodeSet(<<Attr(Bytes("Sign In"))>>),
                         !.footers = NodeSet(<<>>),
                         !.rows = NodeSet(<<LoginRow, Row(NULL, NULL, Some(Bytes("Apple ID")), NULL)>>)]),
     \* server info only
     BuddymlBody(Bytes("BB"),
        [BlankDoc EXCEPT !.page_nav_title = NodeSet(<<Attr(Bytes("Sign In"))>>),
                         !.footers = NodeSet(<<>>),
                         !.server_info = NodeSet(<<InfoAttr(Bytes("guid"), Bytes("1"))>>)]),
     \* a titled page whose footer expression has no node set
     BuddymlBody(Bytes("BC"),
        [BlankDoc EXCEPT !.page_nav_title = NodeSet(<<Attr(Bytes("Sign In"))>>),
                         !.rows = NodeSet(<<LoginRow>>)]),
     \* a server-info attribute named like an input row
     BuddymlBody(Bytes("BD"),
        [BlankDoc EXCEPT !.page_nav_title = NodeSet(<<Attr(<<>>)>>),
                         !.footers = NodeSet(<<>>),
                         !.rows = NodeSet(<<PasswordRow>>),
                         !.server_info = NodeSet(<<InfoAttr(Bytes("password"), Bytes("1"))>>)]),
     \* two error screens, the first with a title of no characters
     BuddymlBody(Bytes("BE"),
        [BlankDoc EXCEPT !.root_nav_title =
                            NodeSet(<<[content |-> Some(<<>>)], Attr(Bytes("Error Title"))>>),
                         !.client_info_ack = NodeSet(<<>>),
                         !.rows = NodeSet(<<>>)]),
     \* a titled page and nothing else
     BuddymlBody(Bytes("BF"),
        [BlankDoc EXCEPT !.page_nav_title = NodeSet(<<Attr(Bytes("Sign In"))>>),
                         !.client_info_ack = NodeSet(<<>>),
                         !.rows = NodeSet(<<>>)]),
     \* two rows of one id, the first secure, the second not
     BuddymlBody(Bytes("BG"),
        [BlankDoc EXCEPT !.page_nav_title = NodeSet(<<Attr(Bytes("Sign In"))>>),
                         !.footers = NodeSet(<<>>),
                         !.rows = NodeSet(<<PasswordRow,
                                            Row(Some(Bytes("password")), NULL, NULL, NULL)>>)])}

HtmlBodies ==
    {HtmlBody(Bytes("H1"), [BlankDoc EXCEPT !.auth_input = NodeSet(<<Attr(S_true)>>)]),
     HtmlBody(Bytes("H2"),
        [BlankDoc EXCEPT !.auth_input = NodeSet(<<>>),
                         !.plist_script = NodeSet(<<Script(Some(Bytes("P2")))>>)]),
     HtmlBody(Bytes("H3"),
        [BlankDoc EXCEPT !.plist_script = NodeSet(<<Script(Some(Bytes("P3")))>>)]),
     HtmlBody(Bytes("H4"), [BlankDoc EXCEPT !.auth_input = NodeSet(<<>>)]),
     HtmlBody(Bytes("H5"),
        [BlankDoc EXCEPT !.plist_script = NodeSet(<<Script(Some(Bytes("P8")))>>)]),
     HtmlBody(Bytes("H6"),
        [BlankDoc EXCEPT !.plist_script = NodeSet(<<Script(Some(Bytes("zz")))>>)]),
     HtmlBody(Bytes("H7"),
        [BlankDoc EXCEPT !.auth_input = NodeSet(<<Attr(S_true)>>),
                         !.plist_script = NodeSet(<<Script(Some(Bytes("P1")))>>)]),
     HtmlBody(Bytes("H8"),
        [BlankDoc EXCEPT !.plist_script = NodeSet(<<Script(Some(Bytes("P1")))>>)]),
     HtmlBody(Bytes("H9"),
        [BlankDoc EXCEPT !.plist_script = NodeSet(<<Script(NULL)>>)])}

Bodies == PlistBodies \cup BuddymlBodies \cup HtmlBodies

\* bytes that are none of the sample bodies, and no body at all
OtherRaws == {Bytes("zz"), Bytes("1P"), <<>>}
BodyRaws == {b.raw : b \in Bodies} \cup OtherRaws

\* the entry of a table for these bytes; for bytes that are none of its
\* entries: no property list, no well-formed XML, and with XML_PARSE_RECOVER
\* a document in which nothing is found unless there are no bytes at all
Lookup(table, raw) ==
    IF \E b \in table : b.raw = raw THEN CHOOSE b \in table : b.raw = raw
    ELSE Body(raw, NULL, NULL, IF raw = <<>> THEN NULL ELSE Some(BlankDoc))

BodyOf(raw) == Lookup(Bodies, raw)

\* plist_from_xml: NULL for what is no property list
plist_from_xml(raw) == BodyOf(raw).plist

\* the document of a body with or without XML_PARSE_RECOVER
DocOf(body, recover) == IF recover THEN body.html ELSE body.xml

\* xmlReadMemory: NULL for what it makes no document of
xmlReadMemory(raw, recover) == DocOf(BodyOf(raw), recover)

-----------------------------------------------------------------------------
(* The HTML parser and the dispatch on the dialect *)

\* a variant that falls through to the final has_errors assignment
HtmlPlist_FallThrough(resp, node) ==
    LET plist == plist_from_xml(node.dump[1])
        r == idevice_activation_activation_record_from_plist(resp, plist)
    IN  IF node.dump = NULL \/ plist = NULL THEN Ret("PLIST_PARSING_ERROR", resp)
        ELSE Ret(r.result, [r.resp EXCEPT !.has_errors = TRUE])

\* the branch for an embedded property list; dump is NULL when htmlNodeDump fails
HtmlPlist(resp, node) ==
    IF node.dump = NULL THEN Ret("HTML_PARSING_ERROR", resp)
    ELSE LET plist == plist_from_xml(node.dump[1])
         IN  IF plist = NULL THEN Ret("PLIST_PARSING_ERROR", resp)
             ELSE idevice_activation_activation_record_from_plist(resp, plist)

\* a variant that looks for the embedded property list first
idevice_activation_parse_html_response_ScriptFirst(resp) ==
    IF resp.content_type # "HTML" THEN Ret("UNKNOWN_CONTENT_TYPE", resp)
    ELSE LET parsed == xmlReadMemory(resp.raw_content, TRUE)
         IN  IF parsed = NULL THEN Ret("HTML_PARSING_ERROR", resp)
             ELSE IF HasNodes(parsed[1].plist_script)
             THEN HtmlPlist(resp, parsed[1].plist_script.nodes[1])
             ELSE IF HasNodes(parsed[1].auth_input)
             THEN Ret("SUCCESS", [resp EXCEPT !.is_auth_required = TRUE])
             ELSE Ret("SUCCESS", [resp EXCEPT !.has_errors = TRUE])

\* idevice_activation_parse_html_response
idevice_activation_parse_html_response(resp) ==
    IF resp.content_type # "HTML" THEN Ret("UNKNOWN_CONTENT_TYPE", resp)
    ELSE LET parsed == xmlReadMemory(resp.raw_content, TRUE)
         IN  IF parsed = NULL THEN Ret("HTML_PARSING_ERROR", resp)
             ELSE IF HasNodes(parsed[1].auth_input)
             THEN Ret("SUCCESS", [resp EXCEPT !.is_auth_required = TRUE])
             ELSE IF HasNodes(parsed[1].plist_script)
             THEN HtmlPlist(resp, parsed[1].plist_script.nodes[1])
             ELSE Ret("SUCCESS", [resp EXCEPT !.has_errors = TRUE])

\* a variant that does not look for the handshake marker
ParsePlistResponse_NoMarker(resp) ==
    LET plist == plist_from_xml(resp.raw_content)
        r == idevice_activation_activation_record_from_plist(resp, plist)
    IN  IF plist = NULL THEN Ret("PLIST_PARSING_ERROR", resp)
        ELSE Ret(r.result, [r.resp EXCEPT !.fields = plist])

\* the structured-document case of idevice_activation_parse_raw_response
ParsePlistResponse(resp) ==
    LET plist == plist_from_xml(resp.raw_content)
        r == IF plist_dict_get_item(plist, K.HandshakeResponseMessage) # NULL
             THEN Ret("SUCCESS", resp)
             ELSE idevice_activation_activation_record_from_plist(resp, plist)
    IN  IF plist = NULL THEN Ret("PLIST_PARSING_ERROR", resp)
        ELSE Ret(r.result, [r.resp EXCEPT !.fields = plist])

\* a variant that parses a body of unknown dialect as a property list
idevice_activation_parse_raw_response_Sniff(resp) ==
    IF resp.content_type = "BUDDYML"
    THEN idevice_activation_parse_buddyml_response(resp, xmlReadMemory(resp.raw_content, FALSE))
    ELSE IF resp.content_type = "HTML" THEN idevice_activation_parse_html_response(resp)
    ELSE ParsePlistResponse(resp)

\* idevice_activation_parse_raw_response
idevice_activation_parse_raw_response(resp) ==
    IF resp.content_type = "PLIST" THEN ParsePlistResponse(resp)
    ELSE IF resp.content_type = "BUDDYML"
    THEN idevice_activation_parse_buddyml_response(resp, xmlReadMemory(resp.raw_content, FALSE))
    ELSE IF resp.content_type = "HTML" THEN idevice_activation_parse_html_response(resp)
    ELSE Ret("UNKNOWN_CONTENT_TYPE", resp)

-----------------------------------------------------------------------------
(* The parsers applied to every sample body under every dialect *)

ParseInit ==
    /\ buf = <<>>
    /\ res = NULL
    /\ OnceIdle
    /\ EncIdle
    /\ BuildInit
    /\ request = NULL
    /\ response = NULL
    /\ tmp_response \in
          {Some([idevice_activation_response_new EXCEPT
                    !.content_type = t, !.raw_content = raw]) :
              t \in {"PLIST", "BUDDYML", "HTML", "UNKNOWN"}, raw \in BodyRaws}
    /\ wire = <<>>
    /\ delivered = <<>>
    /\ sent = NULL
    /\ lpc = "perform"
    /\ result = "SUCCESS"
    /\ ToolIdle

\* curl_easy_perform is over and the body is parsed
CallParse ==
    /\ lpc = "perform"
    /\ wire = <<>>
    /\ LET r == idevice_activation_parse_raw_response(tmp_response[1])
       IN  /\ tmp_response' = Some(r.resp)
           /\ result' = r.result
           /\ response' = IF r.result = "SUCCESS" THEN Some(r.resp) ELSE response
    /\ lpc' = "returned"
    /\ UNCHANGED <<request, wire, delivered, sent, encvars, buildvars, oncevars, toolvars>>

ParseNext == CallParse
ParseSpec == ParseInit /\ [][ParseNext]_vars

-----------------------------------------------------------------------------
(* The request constructors and setters *)

\* a constructor's outcome: the request is NULL unless the result is success
Made(r, req) == [result |-> r, request |-> req]

\* idevice_activation_request_new
idevice_activation_request_new(client_type) ==
    Made("SUCCESS", Some(NewRequest(client_type, "URL_ENCODED",
                                    IDEVICE_ACTIVATION_DEFAULT_URL, plist_new_dict)))

\* a variant that makes the handshake request a form
idevice_activation_drm_handshake_request_new_Form(client_type) ==
    Made("SUCCESS", Some(NewRequest(client_type, "URL_ENCODED",
                                    IDEVICE_ACTIVATION_DRM_HANDSHAKE_DEFAULT_URL, plist_new_dict)))

\* idevice_activation_drm_handshake_request_new
idevice_activation_drm_handshake_request_new(client_type) ==
    Made("SUCCESS", Some(NewRequest(client_type, "PLIST",
                                    IDEVICE_ACTIVATION_DRM_HANDSHAKE_DEFAULT_URL, plist_new_dict)))

\* a variant that merges without looking at the types of the new fields
idevice_activation_request_set_fields_KeepType(req, new_fields) ==
    IF new_fields = NULL THEN req
    ELSE [req EXCEPT !.fields = plist_dict_merge(@, new_fields[1])]

\* idevice_activation_request_set_fields; new_fields may be NULL
idevice_activation_request_set_fields(req, new_fields) ==
    IF new_fields = NULL THEN req
    ELSE [req EXCEPT
            !.content_type =
                IF /\ @ = "URL_ENCODED"
                   /\ \E i \in 1..Len(new_fields[1].sub) : new_fields[1].sub[i].n.t # "string"
                THEN "MULTIPART_FORMDATA" ELSE @,
            !.fields = plist_dict_merge(@, new_fields[1])]

\* idevice_activation_response_get_fields into a variable holding old
idevice_activation_response_get_fields(resp, old) ==
    IF resp # NULL /\ resp[1].fields # NULL THEN resp[1].fields ELSE old

\* idevice_activation_request_set_fields_from_response; resp may be NULL
idevice_activation_request_set_fields_from_response(req, resp) ==
    IF resp = NULL THEN req
    ELSE idevice_activation_request_set_fields(
            req, idevice_activation_response_get_fields(resp, NULL))

\* a variant that takes the request back to form-urlencoded
idevice_activation_request_set_field_Narrow(req, key, value) ==
    [req EXCEPT !.content_type = "URL_ENCODED",
                !.fields = plist_dict_set_item(@, key, PlistString(value))]

\* idevice_activation_request_set_field
idevice_activation_request_set_field(req, key, value) ==
    [req EXCEPT !.fields = plist_dict_set_item(@, key, PlistString(value))]

\* a variant that starts the request over at the new URL
idevice_activation_request_set_url_Fresh(req, u) ==
    [req EXCEPT !.url = u, !.content_type = "URL_ENCODED", !.fields = plist_new_dict]

\* idevice_activation_request_set_url
idevice_activation_request_set_url(req, u) == [req EXCEPT !.url = u]

-----------------------------------------------------------------------------
(* idevice_activation_send_request *)


\* header lines of one transfer; the last two follow a redirect
ReplyHeaders ==
    {<<>>, <<Bytes("HTTP/1.1 200 OK\r\n")>>, <<Bytes("Content-Type: text/xml\r\n")>>, <<Bytes("Content-Type: application/x-buddyml\r\n")>>, <<Bytes("Content-Type: text/html; charset=utf-8\r\n")>>, <<Bytes("Content-Type: application/json\r\n")>>,
     <<Bytes("HTTP/1.1 200 OK\r\n"), Bytes("Content-Type: text/xml\r\n"), Bytes("\r\n")>>, <<Bytes("Content-Type: text/html; charset=utf-8\r\n"), Bytes("Content-Type: text/xml\r\n")>>,
     <<Bytes("Content-Type: text/html; charset=utf-8\r\n"), Bytes("Content-Type: application/json\r\n")>>}

\* a body arrives in one piece or cut in two, an empty body not at all
Pieces(raw) ==
    IF raw = <<>> THEN {<<>>}
    ELSE {<<BodyEvent(raw)>>} \cup
         {<<BodyEvent(SubSeq(raw, 1, i)), BodyEvent(SubSeq(raw, i + 1, Len(raw)))>> :
             i \in 1..(Len(raw) - 1)}

HeaderEvents(lines) == [i \in 1..Len(lines) |-> HeaderEvent(lines[i])]

\* header lines between and after the pieces of the body: the headers of a
\* second response, a trailer
Interleaved ==
    {<<HeaderEvent(Bytes("Content-Type: text/html; charset=utf-8\r\n")), BodyEvent(Bytes("H")),
       HeaderEvent(Bytes("Content-Type: text/xml\r\n")), BodyEvent(Bytes("1"))>>,
     <<BodyEvent(Bytes("P")), HeaderEvent(Bytes("Content-Type: text/xml\r\n")),
       BodyEvent(Bytes("2")), HeaderEvent(Bytes("Content-Type: application/json\r\n"))>>,
     <<HeaderEvent(Bytes("Content-Type: application/x-buddyml\r\n")), BodyEvent(Bytes("B")),
       HeaderEvent(Bytes("Content-Type: \r\n")), BodyEvent(<<>>), BodyEvent(Bytes("5"))>>}

\* what a server may answer
Replies ==
    {HeaderEvents(h) \o p : h \in ReplyHeaders, p \in UNION {Pieces(raw) : raw \in BodyRaws}}
       \cup Interleaved

\* the request as the transport gets it
Sent(req, e) == [url |-> req.url, useragent |-> e.useragent, kind |-> e.kind,
                 postdata |-> e.postdata, form |-> e.form, headers |-> e.headers]

\* send_request up to curl_easy_perform: the argument check, the encoding,
\* the fresh tmp_response; the server picks its answer
SendBegin(answers) ==
    /\ lpc = "idle"
    /\ LET e == EncodeRequest(request[1], char_signed, oob_zero)
       IN  IF request = NULL
           THEN /\ result' = "INTERNAL_ERROR"
                /\ lpc' = "returned"
                /\ UNCHANGED <<tmp_response, wire, delivered, sent>>
           ELSE IF e.result # "SUCCESS"
           THEN /\ result' = e.result
                /\ lpc' = "returned"
                /\ UNCHANGED <<tmp_response, wire, delivered, sent>>
           ELSE /\ tmp_response' = Some(idevice_activation_response_new)
                /\ sent' = Some(Sent(request[1], e))
                /\ wire' \in answers
                /\ delivered' = <<>>
                /\ lpc' = "perform"
                /\ UNCHANGED result
    /\ UNCHANGED <<request, response>>

\* the transfer breaks off; curl_easy_perform's result is not looked at
TransferFails ==
    /\ lpc = "perform"
    /\ wire # <<>>
    /\ wire' = <<>>
    /\ UNCHANGED <<request, response, tmp_response, delivered, sent, lpc, result>>

\* a variant that hands the response out whatever the parser returned
SendEnd_HandOut ==
    /\ lpc = "perform"
    /\ wire = <<>>
    /\ LET r == idevice_activation_parse_raw_response(tmp_response[1])
       IN  /\ tmp_response' = Some(r.resp)
           /\ result' = r.result
           /\ response' = Some(r.resp)
    /\ lpc' = "returned"
    /\ UNCHANGED <<request, wire, delivered, sent>>

\* send_request after curl_easy_perform: the body is parsed, and the response
\* is handed out on success only
SendEnd ==
    /\ lpc = "perform"
    /\ wire = <<>>
    /\ LET r == idevice_activation_parse_raw_response(tmp_response[1])
       IN  /\ tmp_response' = Some(r.resp)
           /\ result' = r.result
           /\ response' = IF r.result = "SUCCESS" THEN Some(r.resp) ELSE response
    /\ lpc' = "returned"
    /\ UNCHANGED <<request, wire, delivered, sent>>

-----------------------------------------------------------------------------
(* One call of send_request, for sample requests and every answer *)

FormFields == PlistDict(<<Entry(Bytes("login"), PlistString(Bytes("a b"))),
                          Entry(Bytes("guid"), PlistString(Bytes("1")))>>)
InfoFields == PlistDict(<<Entry(Bytes("activation-info"), SomeRecord)>>)

LibRequests ==
    {NULL,
     idevice_activation_request_new("ITUNES").request,
     Some(idevice_activation_request_set_fields(
            idevice_activation_request_new("MOBILE_ACTIVATION").request[1], Some(FormFields))),
     Some(idevice_activation_request_set_fields(
            idevice_activation_request_new("MOBILE_ACTIVATION").request[1], Some(InfoFields))),
     Some(idevice_activation_request_set_fields(
            idevice_activation_drm_handshake_request_new("MOBILE_ACTIVATION").request[1],
            Some(InfoFields))),
     Some(NewRequest("ITUNES", "URL_ENCODED", IDEVICE_ACTIVATION_DEFAULT_URL, InfoFields)),
     Some(NewRequest("ITUNES", "HTML", IDEVICE_ACTIVATION_DEFAULT_URL, FormFields))}

LibInit ==
    /\ buf = <<>>
    /\ res = NULL
    /\ OnceIdle
    /\ EncIdle
    /\ BuildInit
    /\ ToolIdle
    /\ request \in LibRequests
    /\ response = NULL
    /\ tmp_response = NULL
    /\ wire = <<>>
    /\ delivered = <<>>
    /\ sent = NULL
    /\ lpc = "idle"
    /\ result = "SUCCESS"

LibSend == SendBegin(Replies) /\ UNCHANGED <<encvars, buildvars, oncevars, toolvars>>
LibHeader == HeaderCallback /\ UNCHANGED <<encvars, buildvars, oncevars, toolvars>>
LibWrite == WriteCallback /\ UNCHANGED <<encvars, buildvars, oncevars, toolvars>>
LibFails == TransferFails /\ UNCHANGED <<encvars, buildvars, oncevars, toolvars>>
LibReturn == SendEnd /\ UNCHANGED <<encvars, buildvars, oncevars, toolvars>>

LibNext == LibSend \/ LibHeader \/ LibWrite \/ LibFails \/ LibReturn
LibSpec == LibInit /\ [][LibNext]_vars

-----------------------------------------------------------------------------
(* The command line tool: main *)

\* keys of the device's lockdown values and of the fields made of them
LK ==
    [InStoreActivation |-> Bytes("InStoreActivation"),
     SerialNumber |-> Bytes("SerialNumber"),
     AppleSerialNumber |-> Bytes("AppleSerialNumber"),
     TelephonyCapability |-> Bytes("TelephonyCapability"),
     InternationalMobileEquipmentIdentity |-> Bytes("InternationalMobileEquipmentIdentity"),
     IMEI |-> Bytes("IMEI"),
     MobileEquipmentIdentifier |-> Bytes("MobileEquipmentIdentifier"),
     MEID |-> Bytes("MEID"),
     InternationalMobileSubscriberIdentity |-> Bytes("InternationalMobileSubscriberIdentity"),
     IMSI |-> Bytes("IMSI"),
     IntegratedCircuitCardIdentity |-> Bytes("IntegratedCircuitCardIdentity"),
     ICCID |-> Bytes("ICCID"),
     activation_info |-> Bytes("activation-info")]

\* a variant that takes the item whatever its type
StringItem_AnyType(info, key) ==
    plist_dict_get_item(info, key)

\* the item of that key if it is a string, else NULL
StringItem(info, key) ==
    LET node == plist_dict_get_item(info, key)
    IN  IF node # NULL /\ node[1].t = "string" THEN node ELSE NULL

\* plist_dict_set_item of a copy of the node, skipped for NULL
SetCopy(dict, key, node) == IF node = NULL THEN dict ELSE plist_dict_set_item(dict, key, node[1])

\* a variant that goes on without a serial number
idevice_activation_request_new_from_lockdownd_NoSerial(client_type, info, ainfo) ==
    LET serial == StringItem(info, LK.SerialNumber)
        capability == plist_dict_get_item(info, LK.TelephonyCapability)
        has_telephony_capability ==
            capability # NULL /\ capability[1].t = "bool" /\ plist_get_bool_val(capability[1])
        imei == StringItem(info, LK.InternationalMobileEquipmentIdentity)
        meid == StringItem(info, LK.MobileEquipmentIdentifier)
        base == SetCopy(plist_dict_set_item(plist_new_dict, LK.InStoreActivation,
                                            PlistString(S_false)),
                        LK.AppleSerialNumber, serial)
        phone == SetCopy(SetCopy(SetCopy(SetCopy(base, LK.IMEI, imei), LK.MEID, meid),
                         LK.IMSI, StringItem(info, LK.InternationalMobileSubscriberIdentity)),
                         LK.ICCID, StringItem(info, LK.IntegratedCircuitCardIdentity))
        device_fields == IF has_telephony_capability THEN phone ELSE base
    IN  IF info = NULL THEN Made("INCOMPLETE_INFO", NULL)
        ELSE IF has_telephony_capability /\ imei = NULL /\ meid = NULL
        THEN Made("INCOMPLETE_INFO", NULL)
        ELSE IF ainfo = NULL \/ ainfo[1].t # "dict" THEN Made("INCOMPLETE_INFO", NULL)
        ELSE Made("SUCCESS",
                  Some(NewRequest(client_type, "MULTIPART_FORMDATA",
                                  IDEVICE_ACTIVATION_DEFAULT_URL,
                                  plist_dict_set_item(device_fields, LK.activation_info,
                                                      ainfo[1]))))

\* idevice_activation_request_new_from_lockdownd; info is what lockdownd
\* returns for all values and ainfo for "ActivationInfo", NULL for a failure
idevice_activation_request_new_from_lockdownd(client_type, info, ainfo) ==
    LET serial == StringItem(info, LK.SerialNumber)
        capability == plist_dict_get_item(info, LK.TelephonyCapability)
        has_telephony_capability ==
            capability # NULL /\ capability[1].t = "bool" /\ plist_get_bool_val(capability[1])
        imei == StringItem(info, LK.InternationalMobileEquipmentIdentity)
        meid == StringItem(info, LK.MobileEquipmentIdentifier)
        base == SetCopy(plist_dict_set_item(plist_new_dict, LK.InStoreActivation,
                                            PlistString(S_false)),
                        LK.AppleSerialNumber, serial)
        phone == SetCopy(SetCopy(SetCopy(SetCopy(base, LK.IMEI, imei), LK.MEID, meid),
                         LK.IMSI, StringItem(info, LK.InternationalMobileSubscriberIdentity)),
                         LK.ICCID, StringItem(info, LK.IntegratedCircuitCardIdentity))
        device_fields == IF has_telephony_capability THEN phone ELSE base
    IN  IF info = NULL \/ serial = NULL THEN Made("INCOMPLETE_INFO", NULL)
        ELSE IF has_telephony_capability /\ imei = NULL /\ meid = NULL
        THEN Made("INCOMPLETE_INFO", NULL)
        ELSE IF ainfo = NULL \/ ainfo[1].t # "dict" THEN Made("INCOMPLETE_INFO", NULL)
        ELSE Made("SUCCESS",
                  Some(NewRequest(client_type, "MULTIPART_FORMDATA",
                                  IDEVICE_ACTIVATION_DEFAULT_URL,
                                  plist_dict_set_item(device_fields, LK.activation_info,
                                                      ainfo[1]))))

\* what devices answer to lockdownd_get_value
Devices ==
    {[info |-> Some(PlistDict(<<Entry(LK.SerialNumber, PlistString(Bytes("SN")))>>)),
      ainfo |-> Some(SomeRecord)],
     [info |-> Some(PlistDict(<<Entry(LK.SerialNumber, PlistString(Bytes("SN"))),
                                Entry(LK.TelephonyCapability, PlistBool(TRUE)),
                                Entry(LK.MobileEquipmentIdentifier, PlistString(Bytes("35")))>>)),
      ainfo |-> Some(SomeRecord)],
     [info |-> Some(PlistDict(<<Entry(LK.SerialNumber, PlistString(Bytes("SN"))),
                                Entry(LK.TelephonyCapability, PlistBool(TRUE)),
                                Entry(LK.IntegratedCircuitCardIdentity, PlistString(Bytes("89")))>>)),
      ainfo |-> Some(SomeRecord)],
     [info |-> Some(PlistDict(<<Entry(LK.SerialNumber, PlistData(Bytes("SN")))>>)),
      ainfo |-> Some(SomeRecord)],
     [info |-> NULL, ainfo |-> Some(SomeRecord)],
     [info |-> Some(PlistDict(<<Entry(LK.SerialNumber, PlistString(Bytes("SN")))>>)),
      ainfo |-> NULL]}

\* what mobileactivation answers when asked for activation info: whether the
\* call succeeded, and the node it left
AinfoAnswers ==
    {[ok |-> FALSE, node |-> NULL], [ok |-> TRUE, node |-> NULL],
     [ok |-> TRUE, node |-> Some(SomeRecord)], [ok |-> TRUE, node |-> Some(PlistString(Bytes("no")))]}

\* the session blob of mobileactivation_create_activation_session_info, NULL for a failure
BlobAnswers == {NULL, Some(PlistDict(<<Entry(Bytes("CollectionBlob"), PlistData(Bytes("cb")))>>))}

\* product versions 9.3 and 10.2
IOS_10_0 == 655360
ProductVersions == {IOS_10_0 - 65536 + 768, IOS_10_0 + 512}

ServiceUrl == Bytes("https://example.org/activate")

\* command lines: the arguments after the program's name
ArgVectors ==
    {<<>>,
     <<"activate">>,
     <<"-s", "https://example.org/activate", "activate">>,
     <<"activate", "-s">>,
     <<"-u", "0123456789", "activate">>,
     <<"-u", "0123456789abcdef0123456789abcdef01234567", "state">>,
     <<"--udid">>,
     <<"-d", "deactivate">>,
     <<"--debug">>,
     <<"-h", "activate">>,
     <<"--version">>,
     <<"activate", "--frobnicate">>,
     <<"Activate">>}

\* the state of the argument loop: ret is the value main returns from inside
\* the loop, NULL while it goes on
ArgState(ret, o, u, url, line) == [ret |-> ret, op |-> o, udid |-> u, url |-> url, line |-> line]

\* the argument loop from argv[i] on; argv[argc] is NULL
RECURSIVE ParseArgsFrom(_, _, _)
ParseArgsFrom(args, i, st) ==
    IF i > Len(args) THEN st
    ELSE IF args[i] \in {"-d", "--debug"} THEN ParseArgsFrom(args, i + 1, st)
    ELSE IF args[i] \in {"-u", "--udid"}
    THEN IF i + 1 > Len(args) \/ Len(args[i + 1]) # 40
         THEN [st EXCEPT !.ret = Some("EXIT_FAILURE"), !.line = "usage"]
         ELSE ParseArgsFrom(args, i + 2, [st EXCEPT !.udid = Some(args[i + 1])])
    ELSE IF args[i] \in {"-s", "--service"}
    THEN IF i + 1 > Len(args)
         THEN [st EXCEPT !.ret = Some("EXIT_FAILURE"), !.line = "usage"]
         ELSE ParseArgsFrom(args, i + 2, [st EXCEPT !.url = Some(Bytes(args[i + 1]))])
    ELSE IF args[i] \in {"-h", "--help"}
    THEN [st EXCEPT !.ret = Some("EXIT_SUCCESS"), !.line = "usage"]
    ELSE IF args[i] \in {"-v", "--version"}
    THEN [st EXCEPT !.ret = Some("EXIT_SUCCESS"), !.line = "version"]
    ELSE IF args[i] = "activate" THEN ParseArgsFrom(args, i + 1, [st EXCEPT !.op = "ACTIVATE"])
    ELSE IF args[i] = "deactivate"
    THEN ParseArgsFrom(args, i + 1, [st EXCEPT !.op = "DEACTIVATE"])
    ELSE IF args[i] = "state" THEN ParseArgsFrom(args, i + 1, [st EXCEPT !.op = "GETSTATE"])
    ELSE [st EXCEPT !.ret = Some("EXIT_SUCCESS"), !.line = "usage"]

\* the lines main sets the session's URL with
WithServiceUrl(req) ==
    IF req # NULL /\ signing_service_url # NULL
    THEN Some(idevice_activation_request_set_url(req[1], signing_service_url[1]))
    ELSE req

\* the activation request of the mobileactivation path
ActivationInfoRequest(ainfo) ==
    Some(idevice_activation_request_set_fields(
            idevice_activation_request_new("MOBILE_ACTIVATION").request[1],
            Some(PlistDict(<<Entry(LK.activation_info, ainfo)>>))))

\* a variant that goes round again
Fail_Retry(line) ==
    /\ message' = line
    /\ exit_status' = "EXIT_FAILURE"
    /\ pc' = "send"

\* "result = EXIT_FAILURE; goto cleanup" after a message
Fail(line) ==
    /\ message' = line
    /\ exit_status' = "EXIT_FAILURE"
    /\ pc' = "cleanup"

ToolInit ==
    /\ buf = <<>>
    /\ res = NULL
    /\ OnceIdle
    /\ EncIdle
    /\ LibIdle
    /\ char_signed = TRUE
    /\ oob_zero = {}
    /\ pc = "args"
    /\ exit_status = "EXIT_FAILURE"
    /\ argv \in ArgVectors
    /\ op = "NONE"
    /\ udid = NULL
    /\ device = NULL
    /\ product_version = 0
    /\ use_mobileactivation = FALSE
    /\ session_mode = FALSE
    /\ handshake_response = NULL
    /\ signing_service_url = NULL
    /\ input \in {<<>>, Bytes("zz")}
    /\ fields = NULL
    /\ record = NULL
    /\ iter = 0
    /\ message = ""
    /\ prompts = <<>>
    /\ applied = NULL

\* the arguments are read; main returns from there for help, the version, a
\* bad argument and a missing command
ParseArgs ==
    /\ pc = "args"
    /\ LET st == ParseArgsFrom(argv, 1, ArgState(NULL, "NONE", NULL, NULL, ""))
       IN  /\ op' = st.op
           /\ udid' = st.udid
           /\ signing_service_url' = st.url
           /\ IF st.ret # NULL
              THEN message' = st.line /\ exit_status' = st.ret[1] /\ pc' = "exit"
              ELSE IF st.op = "NONE"
              THEN message' = "usage" /\ exit_status' = "EXIT_FAILURE" /\ pc' = "exit"
              ELSE pc' = "connect" /\ UNCHANGED <<message, exit_status>>
    /\ UNCHANGED libvars
    /\ UNCHANGED <<argv, device, product_version, use_mobileactivation, session_mode, handshake_response,
                   input, fields, record, iter, prompts, applied>>
    /\ UNCHANGED <<encvars, buildvars, oncevars>>

\* the device is opened, lockdownd gives the product version, and the
\* mobileactivation service is tried
Connect ==
    /\ pc = "connect"
    /\ \E found, handshake, started, client \in BOOLEAN, version \in ProductVersions :
          IF ~found
          THEN /\ message' = IF udid # NULL THEN "No device found with UDID"
                              ELSE "No device found, is it plugged in?"
               /\ exit_status' = "EXIT_FAILURE"
               /\ pc' = "exit"
               /\ UNCHANGED <<product_version, use_mobileactivation>>
          ELSE IF ~handshake
          THEN Fail("Failed to connect to lockdownd")
               /\ UNCHANGED <<product_version, use_mobileactivation>>
          ELSE /\ product_version' = version
               /\ IF started /\ ~client
                  THEN Fail("Failed to connect to com.apple.mobileactivationd")
                       /\ UNCHANGED use_mobileactivation
                  ELSE /\ use_mobileactivation' = started
                       /\ pc' = CASE op = "DEACTIVATE" -> "deactivate"
                                   [] op = "GETSTATE" -> "state"
                                   [] OTHER -> "activate"
                       /\ UNCHANGED <<message, exit_status>>
    /\ UNCHANGED libvars
    /\ UNCHANGED <<argv, op, udid, device, session_mode, handshake_response, signing_service_url,
                   input, fields, record, iter, prompts, applied>>
    /\ UNCHANGED <<encvars, buildvars, oncevars>>

\* case OP_DEACTIVATE
Deactivate ==
    /\ pc = "deactivate"
    /\ \E deactivated \in BOOLEAN :
          IF ~deactivated THEN Fail("Failed to deactivate device.")
          ELSE /\ message' = "Successfully deactivated device."
               /\ exit_status' = "EXIT_SUCCESS"
               /\ pc' = "cleanup"
    /\ UNCHANGED libvars
    /\ UNCHANGED <<argv, op, udid, device, product_version, use_mobileactivation, session_mode, handshake_response,
                   signing_service_url, input, fields, record, iter, prompts, applied>>
    /\ UNCHANGED <<encvars, buildvars, oncevars>>

\* case OP_GETSTATE: the state is printed if the device gave a string; result
\* is not assigned
GetState ==
    /\ pc = "state"
    /\ \E is_string \in BOOLEAN :
          message' = IF is_string THEN "ActivationState:" ELSE "Error getting activation state."
    /\ pc' = "cleanup"
    /\ UNCHANGED libvars
    /\ UNCHANGED <<exit_status, argv, op, udid, device, product_version, use_mobileactivation,
                   session_mode, handshake_response, signing_service_url, input, fields, record, iter, prompts,
                   applied>>
    /\ UNCHANGED <<encvars, buildvars, oncevars>>

\* the request is made of the device's lockdown values
ActivateLockdown ==
    /\ pc = "activate"
    /\ ~use_mobileactivation
    /\ \E d \in Devices :
          LET made == idevice_activation_request_new_from_lockdownd(
                          "MOBILE_ACTIVATION", d.info, d.ainfo)
          IN  /\ device' = Some(d)
              /\ IF made.result # "SUCCESS"
                 THEN Fail("Failed to create activation request.") /\ UNCHANGED request
                 ELSE /\ request' = WithServiceUrl(made.request)
                      /\ pc' = "send"
                      /\ UNCHANGED <<message, exit_status>>
    /\ UNCHANGED <<response, tmp_response, wire, delivered, sent, lpc, result>>
    /\ UNCHANGED <<product_version, use_mobileactivation, session_mode, handshake_response, signing_service_url, argv, op, udid,
                   input, fields, record, iter, prompts, applied>>
    /\ UNCHANGED <<encvars, buildvars, oncevars>>

\* the request is made of mobileactivation's activation info, or the
\* handshake request of its session blob
ActivateMobile ==
    /\ pc = "activate"
    /\ use_mobileactivation
    /\ \E answer \in AinfoAnswers, started \in BOOLEAN, blob \in BlobAnswers :
          LET asked == product_version < IOS_10_0
              ainfo == IF asked /\ answer.ok THEN answer.node ELSE NULL
              mode == ~asked \/ ~answer.ok
          IN  /\ session_mode' = mode
              /\ IF mode /\ ~started
                 THEN Fail("Failed to connect to com.apple.mobileactivationd")
                      /\ UNCHANGED request
                 ELSE IF mode /\ blob = NULL
                 THEN Fail("Failed to get ActivationSessionInfo from mobileactivation")
                      /\ UNCHANGED request
                 ELSE IF mode
                 THEN /\ request' = Some(idevice_activation_request_set_fields(
                            idevice_activation_drm_handshake_request_new(
                                "MOBILE_ACTIVATION").request[1], blob))
                      /\ pc' = "handshake"
                      /\ UNCHANGED <<message, exit_status>>
                 ELSE IF ainfo = NULL \/ ainfo[1].t # "dict"
                 THEN Fail("Failed to get ActivationInfo from mobileactivation")
                      /\ UNCHANGED request
                 ELSE /\ request' = WithServiceUrl(ActivationInfoRequest(ainfo[1]))
                      /\ pc' = "send"
                      /\ UNCHANGED <<message, exit_status>>
    /\ UNCHANGED <<response, tmp_response, wire, delivered, sent, lpc, result>>
    /\ UNCHANGED <<device, product_version, use_mobileactivation, handshake_response, signing_service_url, argv, op, udid,
                   input, fields, record, iter, prompts, applied>>
    /\ UNCHANGED <<encvars, buildvars, oncevars>>

\* what the activation server answers to the tool: sample bodies under their
\* own dialect, one under no dialect, and no answer at all
ToolAnswers ==
    {<<>>, <<HeaderEvent(Bytes("HTTP/1.1 200 OK\r\n")), BodyEvent(Bytes("P2"))>>} \cup
    {<<HeaderEvent(Bytes("Content-Type: text/xml\r\n")), BodyEvent(Bytes(b))>> :
        b \in {"P1", "P2", "P6", "P7", "P8", "PF"}} \cup
    {<<HeaderEvent(Bytes("Content-Type: application/x-buddyml\r\n")), BodyEvent(Bytes(b))>> :
        b \in {"B1", "B4", "B5", "B8", "B9", "BB"}} \cup
    {<<HeaderEvent(Bytes("Content-Type: text/html; charset=utf-8\r\n")), BodyEvent(Bytes(b))>> :
        b \in {"H1", "H2"}}

\* what the handshake endpoint answers: nothing, a handshake reply, a
\* property list that is none, a page with fields
HandshakeAnswers ==
    {<<>>,
     <<HeaderEvent(Bytes("Content-Type: text/xml\r\n")), BodyEvent(Bytes("P7"))>>,
     <<HeaderEvent(Bytes("Content-Type: text/xml\r\n")), BodyEvent(Bytes("P8"))>>,
     <<HeaderEvent(Bytes("Content-Type: application/x-buddyml\r\n")), BodyEvent(Bytes("B5"))>>}

\* send_request has returned: its locals and the transfer are gone
Returned ==
    /\ tmp_response' = NULL
    /\ delivered' = <<>>
    /\ sent' = NULL

\* the handshake request goes out; the result of the call is not looked at
HandshakeSend ==
    /\ pc = "handshake"
    /\ SendBegin(HandshakeAnswers)
    /\ pc' = "handshake_sent"
    /\ UNCHANGED <<exit_status, device, product_version, use_mobileactivation, session_mode, handshake_response,
                   signing_service_url, argv, op, udid, input, fields, record, iter, message, prompts, applied>>
    /\ UNCHANGED <<encvars, buildvars, oncevars>>

\* the handshake response's fields go to the device, whose activation info
\* makes the activation request
AfterHandshake ==
    /\ pc = "handshake_sent"
    /\ lpc = "returned"
    /\ \E started \in BOOLEAN, answer \in AinfoAnswers :
          IF result = "CRASH"
          THEN pc' = "crashed"
               /\ UNCHANGED <<request, response, lpc, message, exit_status, handshake_response>>
          ELSE /\ handshake_response' = Some(idevice_activation_response_get_fields(response, NULL))
               /\ response' = NULL
               /\ lpc' = "idle"
               /\ IF ~started
                  THEN Fail("Failed to connect to com.apple.mobileactivationd")
                       /\ UNCHANGED request
                  ELSE IF ~answer.ok \/ answer.node = NULL \/ answer.node[1].t # "dict"
                  THEN Fail("Failed to get ActivationInfo from mobileactivation")
                       /\ UNCHANGED request
                  ELSE /\ request' = WithServiceUrl(ActivationInfoRequest(answer.node[1]))
                       /\ pc' = "send"
                       /\ UNCHANGED <<message, exit_status>>
    /\ Returned
    /\ UNCHANGED <<wire, result>>
    /\ UNCHANGED <<device, product_version, use_mobileactivation, session_mode, signing_service_url, argv, op, udid,
                   input, fields, record, iter, prompts, applied>>
    /\ UNCHANGED <<encvars, buildvars, oncevars>>

\* the head of a round: the activation request goes out
LoopSend ==
    /\ pc = "send"
    /\ SendBegin(ToolAnswers)
    /\ pc' = "sent"
    /\ UNCHANGED <<exit_status, device, product_version, use_mobileactivation, session_mode, handshake_response,
                   signing_service_url, argv, op, udid, input, fields, record, iter, message, prompts, applied>>
    /\ UNCHANGED <<encvars, buildvars, oncevars>>

ToolHeader == HeaderCallback /\ UNCHANGED <<encvars, buildvars, oncevars, toolvars>>
ToolWrite == WriteCallback /\ UNCHANGED <<encvars, buildvars, oncevars, toolvars>>
ToolReturn == SendEnd /\ UNCHANGED <<encvars, buildvars, oncevars, toolvars>>

\* idevice_activation_response_get_activation_record
idevice_activation_response_get_activation_record(resp) == resp.activation_record

\* a variant that looks at the acknowledgment before the record
RoundOutcome_AckFirst(resp, response_fields) ==
    IF resp.has_errors THEN "Errored"
    ELSE IF resp.is_activation_ack THEN "Acknowledged"
    ELSE IF idevice_activation_response_get_activation_record(resp) # NULL THEN "RecordReady"
    ELSE IF response_fields = NULL \/ plist_dict_get_size(response_fields[1]) = 0
    THEN "Unknown error"
    ELSE "AwaitingInput"

\* the branch a round takes on the response of a successful send
RoundOutcome(resp, response_fields) ==
    IF resp.has_errors THEN "Errored"
    ELSE IF idevice_activation_response_get_activation_record(resp) # NULL THEN "RecordReady"
    ELSE IF resp.is_activation_ack THEN "Acknowledged"
    ELSE IF response_fields = NULL \/ plist_dict_get_size(response_fields[1]) = 0
    THEN "Unknown error"
    ELSE "AwaitingInput"

\* a round from the return of send_request to the branch it takes
Classify ==
    /\ pc = "sent"
    /\ lpc = "returned"
    /\ LET response_fields == idevice_activation_response_get_fields(response, fields)
           outcome == RoundOutcome(response[1], response_fields)
       IN  IF result = "CRASH"
           THEN pc' = "crashed" /\ UNCHANGED <<lpc, message, exit_status, record, fields>>
           ELSE /\ lpc' = "idle"
                /\ IF result # "SUCCESS"
                   THEN Fail("Failed to send request or retrieve response.")
                        /\ UNCHANGED <<record, fields>>
                   ELSE IF outcome = "Errored"
                   THEN Fail("Activation server reports errors.")
                        /\ UNCHANGED <<record, fields>>
                   ELSE IF outcome = "RecordReady"
                   THEN /\ record' = idevice_activation_response_get_activation_record(response[1])
                        /\ pc' = "apply"
                        /\ UNCHANGED <<message, exit_status, fields>>
                   ELSE IF outcome = "Acknowledged"
                   THEN /\ message' = "Activation server reports that device is already activated."
                        /\ exit_status' = "EXIT_SUCCESS"
                        /\ pc' = "cleanup"
                        /\ record' = NULL
                        /\ UNCHANGED fields
                   ELSE IF outcome = "Unknown error"
                   THEN Fail("Unknown error.") /\ record' = NULL /\ fields' = response_fields
                   ELSE /\ record' = NULL
                        /\ fields' = response_fields
                        /\ pc' = "resubmit"
                        /\ UNCHANGED <<message, exit_status>>
    /\ Returned
    /\ UNCHANGED <<request, response, wire, result>>
    /\ UNCHANGED <<device, product_version, use_mobileactivation, session_mode, handshake_response, signing_service_url, argv, op, udid,
                   input, iter, prompts, applied>>
    /\ UNCHANGED <<encvars, buildvars, oncevars>>

\* a variant that does not look at the result of setting ActivationStateAcknowledged
ApplyRecord_Unacknowledged ==
    /\ pc = "apply"
    /\ \E connected, started, client, activated, acknowledged \in BOOLEAN :
          IF ~connected
          THEN Fail("Failed to connect to lockdownd") /\ UNCHANGED applied
          ELSE IF use_mobileactivation /\ ~started
          THEN Fail("Failed to start service com.apple.mobileactivationd") /\ UNCHANGED applied
          ELSE IF use_mobileactivation /\ ~client
          THEN Fail("Failed to connect to com.apple.mobileactivationd") /\ UNCHANGED applied
          ELSE IF ~activated
          THEN Fail("Failed to activate device with record.") /\ UNCHANGED applied
          ELSE /\ applied' = Some([record |-> record[1],
                                   headers |-> IF use_mobileactivation /\ session_mode
                                               THEN Some(response[1].headers) ELSE NULL,
                                   service |-> IF use_mobileactivation THEN "mobileactivation"
                                               ELSE "lockdownd",
                                   acknowledged |-> acknowledged])
               /\ message' = "Successfully activated device."
               /\ exit_status' = "EXIT_SUCCESS"
               /\ pc' = "cleanup"
    /\ UNCHANGED libvars
    /\ UNCHANGED <<device, product_version, use_mobileactivation, session_mode, handshake_response, signing_service_url, argv, op, udid,
                   input, fields, record, iter, prompts>>
    /\ UNCHANGED <<encvars, buildvars, oncevars>>

\* the record goes to the device, through mobileactivation or lockdownd
ApplyRecord ==
    /\ pc = "apply"
    /\ \E connected, started, client, activated, acknowledged \in BOOLEAN :
          IF ~connected
          THEN Fail("Failed to connect to lockdownd") /\ UNCHANGED applied
          ELSE IF use_mobileactivation /\ ~started
          THEN Fail("Failed to start service com.apple.mobileactivationd") /\ UNCHANGED applied
          ELSE IF use_mobileactivation /\ ~client
          THEN Fail("Failed to connect to com.apple.mobileactivationd") /\ UNCHANGED applied
          ELSE IF ~activated
          THEN Fail("Failed to activate device with record.") /\ UNCHANGED applied
          ELSE /\ applied' = Some([record |-> record[1],
                                   headers |-> IF use_mobileactivation /\ session_mode
                                               THEN Some(response[1].headers) ELSE NULL,
                                   service |-> IF use_mobileactivation THEN "mobileactivation"
                                               ELSE "lockdownd",
                                   acknowledged |-> acknowledged])
               /\ IF ~acknowledged
                  THEN Fail("Failed to set ActivationStateAcknowledged on device.")
                  ELSE /\ message' = "Successfully activated device."
                       /\ exit_status' = "EXIT_SUCCESS"
                       /\ pc' = "cleanup"
    /\ UNCHANGED libvars
    /\ UNCHANGED <<device, product_version, use_mobileactivation, session_mode, handshake_response, signing_service_url, argv, op, udid,
                   input, fields, record, iter, prompts>>
    /\ UNCHANGED <<encvars, buildvars, oncevars>>

\* a variant that does not seed the new request
NewRound_Unseeded ==
    /\ pc = "resubmit"
    /\ request' = idevice_activation_request_new("MOBILE_ACTIVATION").request
    /\ iter' = 0
    /\ prompts' = <<>>
    /\ pc' = "prompt"
    /\ UNCHANGED <<response, tmp_response, wire, delivered, sent, lpc, result>>
    /\ UNCHANGED <<exit_status, device, product_version, use_mobileactivation, session_mode, handshake_response,
                   signing_service_url, argv, op, udid, input, fields, record, message, applied>>
    /\ UNCHANGED <<encvars, buildvars, oncevars>>

\* a request is made anew and seeded with the fields of the response
NewRound ==
    /\ pc = "resubmit"
    /\ request' = Some(idevice_activation_request_set_fields_from_response(
                          idevice_activation_request_new("MOBILE_ACTIVATION").request[1],
                          response))
    /\ iter' = 0
    /\ prompts' = <<>>
    /\ pc' = "prompt"
    /\ UNCHANGED <<response, tmp_response, wire, delivered, sent, lpc, result>>
    /\ UNCHANGED <<exit_status, device, product_version, use_mobileactivation, session_mode, handshake_response,
                   signing_service_url, argv, op, udid, input, fields, record, message, applied>>
    /\ UNCHANGED <<encvars, buildvars, oncevars>>

\* idevice_activation_response_get_label
idevice_activation_response_get_label(resp, key) ==
    LET item == plist_dict_get_item(Some(resp.labels), key)
    IN  IF item # NULL THEN Some(item[1].v) ELSE NULL

\* what scanf("%1023s") finds on the standard input: a word, or NULL at its end
UserInputs == {NULL, Some(Bytes("me"))}

\* one pass of the prompt loop: a field that requires input is asked for with
\* scanf, which fills the buffer with the word it read or, at the end of the
\* input, leaves the buffer as it is; its return value is not looked at
PromptField ==
    /\ pc = "prompt"
    /\ iter < plist_dict_get_size(fields[1])
    /\ LET field_key == fields[1].sub[iter + 1].k
           field_label == idevice_activation_response_get_label(response[1], field_key)
       IN  IF plist_dict_get_item(Some(response[1].fields_require_input), field_key) # NULL
           THEN \E word \in UserInputs :
                /\ prompts' = Append(prompts,
                                     [key |-> field_key,
                                      text |-> IF field_label # NULL THEN field_label[1]
                                               ELSE field_key,
                                      echo |-> TRUE,
                                      answer |-> word])
                /\ input' = IF word # NULL THEN word[1] ELSE input
                /\ request' = Some(idevice_activation_request_set_field(
                                      request[1], field_key, input'))
           ELSE UNCHANGED <<prompts, input, request>>
    /\ iter' = iter + 1
    /\ UNCHANGED <<response, tmp_response, wire, delivered, sent, lpc, result>>
    /\ UNCHANGED <<pc, exit_status, device, product_version, use_mobileactivation, session_mode, handshake_response,
                   signing_service_url, argv, op, udid, fields, record, message, applied>>
    /\ UNCHANGED <<encvars, buildvars, oncevars>>

\* the prompt loop is over: the response is freed and the next round begins
EndRound ==
    /\ pc = "prompt"
    /\ iter = plist_dict_get_size(fields[1])
    /\ response' = NULL
    /\ iter' = 0
    /\ pc' = "send"
    /\ UNCHANGED <<request, tmp_response, wire, delivered, sent, lpc, result>>
    /\ UNCHANGED <<exit_status, device, product_version, use_mobileactivation, session_mode, handshake_response,
                   signing_service_url, argv, op, udid, input, fields, record, message, prompts, applied>>
    /\ UNCHANGED <<encvars, buildvars, oncevars>>

\* the cleanup label and the return
Cleanup ==
    /\ pc = "cleanup"
    /\ request' = NULL
    /\ response' = NULL
    /\ fields' = NULL
    /\ record' = NULL
    /\ iter' = 0
    /\ pc' = "exit"
    /\ UNCHANGED <<tmp_response, wire, delivered, sent, lpc, result>>
    /\ UNCHANGED <<exit_status, device, product_version, use_mobileactivation, session_mode, handshake_response,
                   signing_service_url, argv, op, udid, input, message, prompts, applied>>
    /\ UNCHANGED <<encvars, buildvars, oncevars>>

Next ==
    \/ ParseArgs \/ Connect \/ Deactivate \/ GetState
    \/ ActivateLockdown \/ ActivateMobile \/ HandshakeSend \/ AfterHandshake
    \/ LoopSend \/ ToolHeader \/ ToolWrite \/ ToolReturn
    \/ Classify \/ ApplyRecord \/ NewRound \/ PromptField \/ EndRound \/ Cleanup

Spec == ToolInit /\ [][Next]_vars

\* main is one thread that takes its next step whenever it has one
FairSpec == Spec /\ WF_vars(Next)

-----------------------------------------------------------------------------
(* thread_once called by several threads.  The code is the WIN32 one; on   *)
(* other systems thread_once is pthread_once.                               *)

\* thread t calls thread_once on control block c, whose routine is the one
\* the call sites pair it with
Call(t, c) ==
    /\ threads[t].pc = "idle"
    /\ threads[t].calls < MaxCalls
    /\ threads' = [threads EXCEPT ![t] = [pc |-> "lock", control |-> c, calls |-> @.calls + 1]]
    /\ UNCHANGED <<once_control, routine>>

\* a variant that does not wait for the lock
Acquire_NoWait(t) ==
    /\ threads[t].pc = "lock"
    /\ once_control' = [once_control EXCEPT ![threads[t].control].lock = 1]
    /\ threads' = [threads EXCEPT ![t].pc = "test"]
    /\ UNCHANGED routine

\* InterlockedExchange(&lock, 1) returned 0; while it returns 1 the thread
\* sleeps and tries again, which changes nothing
Acquire(t) ==
    /\ threads[t].pc = "lock"
    /\ once_control[threads[t].control].lock = 0
    /\ once_control' = [once_control EXCEPT ![threads[t].control].lock = 1]
    /\ threads' = [threads EXCEPT ![t].pc = "test"]
    /\ UNCHANGED routine

\* if (!once_control->state) once_control->state = 1, and on to the routine
Test(t) ==
    /\ threads[t].pc = "test"
    /\ IF once_control[threads[t].control].state = 0
       THEN /\ once_control' = [once_control EXCEPT ![threads[t].control].state = 1]
            /\ threads' = [threads EXCEPT ![t].pc = "call"]
       ELSE /\ threads' = [threads EXCEPT ![t].pc = "unlock"]
            /\ UNCHANGED once_control
    /\ UNCHANGED routine

\* init_routine() is entered
RoutineBegin(t) ==
    /\ threads[t].pc = "call"
    /\ routine' = [routine EXCEPT ![threads[t].control].begun = @ + 1]
    /\ threads' = [threads EXCEPT ![t].pc = "routine"]
    /\ UNCHANGED once_control

\* init_routine() returns
RoutineEnd(t) ==
    /\ threads[t].pc = "routine"
    /\ routine' = [routine EXCEPT ![threads[t].control].ended = @ + 1]
    /\ threads' = [threads EXCEPT ![t].pc = "unlock"]
    /\ UNCHANGED once_control

\* InterlockedExchange(&lock, 0), and thread_once returns
Release(t) ==
    /\ threads[t].pc = "unlock"
    /\ once_control' = [once_control EXCEPT ![threads[t].control].lock = 0]
    /\ threads' = [threads EXCEPT ![t].pc = "returned"]
    /\ UNCHANGED routine

\* the caller goes on and may call again
GoOn(t) ==
    /\ threads[t].pc = "returned"
    /\ threads' = [threads EXCEPT ![t].pc = "idle"]
    /\ UNCHANGED <<once_control, routine>>

OnceInit ==
    /\ buf = <<>>
    /\ res = NULL
    /\ OnceIdle
    /\ EncIdle
    /\ BuildInit
    /\ LibIdle
    /\ ToolIdle

OnceNext ==
    /\ \E t \in Threads :
          \/ \E c \in Controls : Call(t, c)
          \/ Acquire(t) \/ Test(t) \/ RoutineBegin(t) \/ RoutineEnd(t) \/ Release(t) \/ GoOn(t)
    /\ UNCHANGED <<encvars, buildvars, libvars, toolvars>>

OnceSpec == OnceInit /\ [][OnceNext]_vars

-----------------------------------------------------------------------------
(* A caller that builds a request with the public operations and sends it *)

\* what the caller passes in
ReqKeys == {Bytes("login"), Bytes("guid")}
ReqStrings == {<<>>, Bytes("a b")}
ReqValues ==
    {PlistString(v) : v \in ReqStrings}
        \cup {PlistBool(TRUE), PlistDict(<<Entry(Bytes("x"), PlistString(<<>>))>>)}
ReqFields == {NULL} \cup {Some(d) : d \in DictsUpTo(ReqKeys, ReqValues, MaxFields)}
ReqResponses ==
    {NULL} \cup {Some([idevice_activation_response_new EXCEPT !.fields = f]) : f \in ReqFields}

\* the request becomes req and no send of it has returned yet
Built(req) ==
    /\ request' = req
    /\ lpc' = "idle"
    /\ result' = "SUCCESS"
    /\ UNCHANGED <<response, tmp_response, wire, delivered, sent>>

RequestNew ==
    \E client_type \in ClientTypes :
        Built(idevice_activation_request_new(client_type).request)

HandshakeRequestNew ==
    \E client_type \in ClientTypes :
        Built(idevice_activation_drm_handshake_request_new(client_type).request)

SetField ==
    /\ request # NULL
    /\ \E key \in ReqKeys, value \in ReqStrings :
          Built(Some(idevice_activation_request_set_field(request[1], key, value)))

SetFields ==
    /\ request # NULL
    /\ \E f \in ReqFields :
          Built(Some(idevice_activation_request_set_fields(request[1], f)))

SetFieldsFromResponse ==
    /\ request # NULL
    /\ \E resp \in ReqResponses :
          Built(Some(idevice_activation_request_set_fields_from_response(request[1], resp)))

SetUrl ==
    /\ request # NULL
    /\ \E u \in {IDEVICE_ACTIVATION_DEFAULT_URL, ServiceUrl} :
          Built(Some(idevice_activation_request_set_url(request[1], u)))

\* idevice_activation_send_request up to the encoding of the fields
SendBuilt ==
    /\ request # NULL
    /\ lpc = "idle"
    /\ lpc' = "returned"
    /\ result' = EncodeRequest(request[1], char_signed, oob_zero).result
    /\ UNCHANGED <<request, response, tmp_response, wire, delivered, sent>>

ReqInit ==
    /\ buf = <<>>
    /\ res = NULL
    /\ OnceIdle
    /\ EncIdle
    /\ BuildInit
    /\ LibIdle
    /\ ToolIdle

\* the device this caller meets: it has a serial number and activation info
ReqDevices ==
    {[info |-> Some(PlistDict(<<Entry(LK.SerialNumber, PlistString(Bytes("SN")))>>)),
      ainfo |-> Some(SomeRecord)]}

\* the caller asks for a request made of the device's lockdown values; without
\* a lockdown client the call stops before it asks the device
RequestNewFromLockdownd(answers) ==
    /\ \E client_type \in ClientTypes, lockdown \in {NULL} \cup {Some(d) : d \in answers} :
          LET made == idevice_activation_request_new_from_lockdownd(
                          client_type, lockdown[1].info, lockdown[1].ainfo)
          IN  /\ device' = lockdown
              /\ IF lockdown = NULL
                 THEN result' = "INTERNAL_ERROR" /\ UNCHANGED request
                 ELSE /\ result' = made.result
                      /\ request' = IF made.result = "SUCCESS" THEN made.request ELSE request
    /\ lpc' = "idle"
    /\ UNCHANGED <<response, tmp_response, wire, delivered, sent>>
    /\ UNCHANGED <<pc, exit_status, product_version, use_mobileactivation, session_mode,
                   handshake_response, signing_service_url, argv, op, udid, input, fields,
                   record, iter, message, prompts, applied>>
    /\ UNCHANGED <<encvars, buildvars, oncevars>>

ReqNext ==
    \/ /\ RequestNew \/ HandshakeRequestNew \/ SetField \/ SetFields \/ SetFieldsFromResponse \/ SetUrl \/ SendBuilt
       /\ UNCHANGED <<encvars, buildvars, oncevars, toolvars>>
    \/ RequestNewFromLockdownd(ReqDevices)

ReqSpec == ReqInit /\ [][ReqNext]_vars

-----------------------------------------------------------------------------
(* The device-derived constructor applied to what devices may answer *)

\* an entry for a value the device has, none for one it lacks
Opt(key, node) == IF node = NULL THEN <<>> ELSE <<Entry(key, node[1])>>

\* what lockdownd may return: a serial number that is a string, is data or is
\* missing; a telephony capability that is true, false or missing; each of the
\* four identities present or not; activation info that is a dictionary, is a
\* string or is not returned; and no values at all
LockdownAnswers ==
    {[info |-> Some(PlistDict(
                  Opt(LK.SerialNumber, serial) \o Opt(LK.TelephonyCapability, capability)
                  \o Opt(LK.InternationalMobileEquipmentIdentity, imei)
                  \o Opt(LK.MobileEquipmentIdentifier, meid)
                  \o Opt(LK.InternationalMobileSubscriberIdentity, imsi)
                  \o Opt(LK.IntegratedCircuitCardIdentity, iccid))),
      ainfo |-> ainfo] :
        serial \in {NULL, Some(PlistString(Bytes("SN"))), Some(PlistData(Bytes("SN")))},
        capability \in {NULL, Some(PlistBool(TRUE)), Some(PlistBool(FALSE))},
        imei \in {NULL, Some(PlistString(Bytes("35")))},
        meid \in {NULL, Some(PlistString(Bytes("A1")))},
        imsi \in {NULL, Some(PlistString(Bytes("31")))},
        iccid \in {NULL, Some(PlistString(Bytes("89")))},
        ainfo \in {NULL, Some(SomeRecord), Some(PlistString(Bytes("info")))}}
      \cup {[info |-> NULL, ainfo |-> Some(SomeRecord)]}

DevInit ==
    /\ buf = <<>>
    /\ res = NULL
    /\ OnceIdle
    /\ EncIdle
    /\ BuildInit
    /\ LibIdle
    /\ ToolIdle

\* one call, made by a caller that holds no request yet
DevNext ==
    /\ device = NULL
    /\ result = "SUCCESS"
    /\ RequestNewFromLockdownd(LockdownAnswers)
DevSpec == DevInit /\ [][DevNext]_vars

-----------------------------------------------------------------------------
(* Claims about the parsers *)

Parsed == lpc = "returned" /\ tmp_response # NULL

\* C4 as stated: in every response the parsers produced, under any dialect and
\* for any body, a present activation_record excludes has_errors and excludes
\* is_activation_ack.
C4_RecordExcludesAckAndError ==
    Parsed /\ tmp_response[1].activation_record # NULL
        => ~tmp_response[1].has_errors /\ ~tmp_response[1].is_activation_ack

\* C4 amended: in every response the parsers produced, a present
\* activation_record excludes has_errors; it does not exclude is_activation_ack.
C4_RecordExcludesError ==
    Parsed /\ tmp_response[1].activation_record # NULL => ~tmp_response[1].has_errors

\* C4 witness: a parsed response that carries a record together with an
\* acknowledgment, and no error
C4_Witness ==
    /\ Parsed
    /\ result = "SUCCESS"
    /\ tmp_response[1].activation_record # NULL
    /\ tmp_response[1].is_activation_ack
    /\ ~tmp_response[1].has_errors

\* the body is a property list with that entry at its top level
HasEntry(raw, key) ==
    LET plist == plist_from_xml(raw)
    IN  /\ plist # NULL
        /\ plist[1].t = "dict"
        /\ \E i \in 1..Len(plist[1].sub) : plist[1].sub[i].k = key

\* the body is a dictionary whose "ActivationRecord" entry holds "ack-received" = true
HasAckedRecord(raw) ==
    LET plist == plist_from_xml(raw)
    IN  /\ plist # NULL
        /\ plist[1].t = "dict"
        /\ \E i \in 1..Len(plist[1].sub) :
              /\ plist[1].sub[i].k = K.ActivationRecord
              /\ plist[1].sub[i].n.t = "dict"
              /\ \E j \in 1..Len(plist[1].sub[i].n.sub) :
                    /\ plist[1].sub[i].n.sub[j].k = K.ack_received
                    /\ plist[1].sub[i].n.sub[j].n = PlistBool(TRUE)

\* C5 as stated: parsing a structured-document body whose top-level
\* dictionary has an "ActivationRecord" entry containing "ack-received" = true
\* succeeds, sets is_activation_ack and produces an activation_record made of
\* the raw bytes.
C5_AckedRecord ==
    /\ Parsed
    /\ tmp_response[1].content_type = "PLIST"
    /\ HasAckedRecord(tmp_response[1].raw_content)
    => /\ result = "SUCCESS"
       /\ tmp_response[1].is_activation_ack
       /\ tmp_response[1].activation_record = Some(PlistData(tmp_response[1].raw_content))
       /\ response = tmp_response

\* C5 amended: the same for a body that has no top-level
\* "HandshakeResponseMessage" entry next to the "ActivationRecord".
C5_AckedRecordOfNoHandshakeReply ==
    /\ Parsed
    /\ tmp_response[1].content_type = "PLIST"
    /\ HasAckedRecord(tmp_response[1].raw_content)
    /\ ~HasEntry(tmp_response[1].raw_content, K.HandshakeResponseMessage)
    => /\ result = "SUCCESS"
       /\ tmp_response[1].is_activation_ack
       /\ tmp_response[1].activation_record = Some(PlistData(tmp_response[1].raw_content))
       /\ response = tmp_response

\* C5 witness: such a body has been parsed as a structured document
C5_Witness ==
    /\ Parsed
    /\ tmp_response[1].content_type = "PLIST"
    /\ HasAckedRecord(tmp_response[1].raw_content)
    /\ tmp_response[1].is_activation_ack
    /\ tmp_response[1].activation_record # NULL

RootTitled(raw) ==
    /\ xmlReadMemory(raw, FALSE) # NULL
    /\ HasNodes(xmlReadMemory(raw, FALSE)[1].root_nav_title)

\* C11: parsing a BuddyML body that has a navigation-bar title directly under
\* the root succeeds with has_errors set and title equal to what the XML
\* library returns for the first such attribute, whatever else the body
\* holds; no acknowledgment, no field, no description and no record are taken
\* from it.
C11_ErrorScreen ==
    /\ Parsed
    /\ tmp_response[1].content_type = "BUDDYML"
    /\ RootTitled(tmp_response[1].raw_content)
    => /\ result = "SUCCESS"
       /\ response = tmp_response
       /\ tmp_response[1] =
             [idevice_activation_response_new EXCEPT
                !.content_type = "BUDDYML",
                !.raw_content = tmp_response[1].raw_content,
                !.has_errors = TRUE,
                !.title = xmlReadMemory(tmp_response[1].raw_content, FALSE)[1]
                              .root_nav_title.nodes[1].content]

\* C11 witness: an error screen on top of a page with client info, an alert,
\* an input row and server info has been parsed
C11_Witness ==
    /\ Parsed
    /\ tmp_response[1].content_type = "BUDDYML"
    /\ tmp_response[1].raw_content = Bytes("B2")
    /\ tmp_response[1].has_errors
    /\ tmp_response[1].title = Some(Bytes("Error Title"))

\* the body is a well-formed document without root-level navigation bar,
\* acknowledged client info, alert, editable input row and server-info attribute
NothingToExtract(raw) ==
    /\ xmlReadMemory(raw, FALSE) # NULL
    /\ LET doc == xmlReadMemory(raw, FALSE)[1]
       IN  /\ ~HasNodes(doc.root_nav_title)
           /\ ~HasNodes(doc.client_info_ack)
           /\ ~HasNodes(doc.alert_title)
           /\ ~HasNodes(doc.rows)
           /\ ~HasNodes(doc.server_info)

\* C12 as stated: parsing a well-formed BuddyML body without root-level
\* navigation bar, acknowledged client info, alert, editable input row and
\* server-info attribute returns success with has_errors set.
C12_NothingToExtractIsError ==
    /\ Parsed
    /\ tmp_response[1].content_type = "BUDDYML"
    /\ NothingToExtract(tmp_response[1].raw_content)
    => /\ result = "SUCCESS"
       /\ tmp_response[1].has_errors

-----------------------------------------------------------------------------
(* Claims about the activation loop *)

\* the states of a session, read off main's position
AwaitingInput == pc = "resubmit"
RecordReady == pc = "apply"
Terminal == pc \in {"apply", "cleanup", "exit"}

\* the outcome that goes with a position and an exit status
OutcomeAt(position, status) ==
    IF position = "apply" THEN "RecordReady"
    ELSE IF position = "resubmit" THEN "AwaitingInput"
    ELSE IF position = "cleanup" /\ status = "EXIT_SUCCESS" THEN "Acknowledged"
    ELSE IF position = "cleanup" /\ status = "EXIT_FAILURE" THEN "Errored"
    ELSE "none"

\* the order of the specification, on the flags of a response
ClaimedOutcome(resp) ==
    IF resp.has_errors THEN "Errored"
    ELSE IF resp.activation_record # NULL THEN "RecordReady"
    ELSE IF resp.is_activation_ack THEN "Acknowledged"
    ELSE IF resp.fields = NULL \/ Len(resp.fields[1].sub) = 0 THEN "Errored"
    ELSE "AwaitingInput"

\* C1: in every round, given a response that send_request returned
\* successfully, the outcome is chosen in this order: has_errors -> Errored
\* (exit failure); else a record -> RecordReady; else is_activation_ack ->
\* Acknowledged (exit success); else no fields -> Errored; else AwaitingInput.
C1_OutcomeOrder ==
    [][(pc = "sent" /\ lpc = "returned" /\ result = "SUCCESS" /\ pc' # "sent")
          => OutcomeAt(pc', exit_status') = ClaimedOutcome(response[1])]_vars

\* C1 witness: a response that carries both a record and an acknowledgment
\* has been taken as RecordReady
C1_Witness ==
    /\ RecordReady
    /\ response # NULL
    /\ response[1].is_activation_ack
    /\ record # NULL

\* the fields of the sample page that has server info only
GuidFields == PlistDict(<<Entry(Bytes("guid"), PlistString(Bytes("1")))>>)

\* C2: starting from AwaitingInput with field set S, the session reaches a
\* terminal state (or ends) unless the server comes to answer with another
\* field set: it does not go round with the same S forever.
C2_ResubmissionTerminates ==
    (AwaitingInput /\ fields = Some(GuidFields))
        ~> (\/ Terminal
            \/ pc = "crashed"
            \/ AwaitingInput /\ fields # Some(GuidFields))

\* a request goes to the transport
NetSend == lpc # "perform" /\ lpc' = "perform"

\* C3: Errored, Acknowledged and RecordReady are terminal and no request is
\* sent from them; an activation request is sent at the head of a round only,
\* which is entered from the making of the first request or from the end of
\* AwaitingInput's prompts only; a round that was sent ends in an outcome
\* before anything else is sent; and AwaitingInput is followed by a send.
C3_TerminalAndOneSend ==
    /\ [][/\ Terminal => Terminal' /\ ~NetSend
          /\ NetSend /\ pc # "handshake" => pc = "send" /\ pc' = "sent"
          /\ pc' = "send" /\ pc # "send" => pc \in {"activate", "handshake_sent", "prompt"}
          /\ pc' = "prompt" /\ pc # "prompt" => AwaitingInput
          /\ pc = "sent" /\ pc' # "sent" => Terminal' \/ AwaitingInput' \/ pc' = "crashed"]_vars
    /\ (AwaitingInput ~> (pc = "sent" /\ lpc = "perform"))

\* C3 witness: the request of a second round is on its way
C3_Witness ==
    /\ pc = "sent"
    /\ lpc = "perform"
    /\ fields # NULL
    /\ response = NULL


-----------------------------------------------------------------------------
(* Claims about the request made of the device's values *)

\* lockdownd was asked and its answer has no string-valued "SerialNumber"
NoSerialNumber == device # NULL /\ StringItem(device[1].info, LK.SerialNumber) = NULL

\* C13: for a device whose lockdown values have no string-valued
\* "SerialNumber", idevice_activation_request_new_from_lockdownd fails with
\* INCOMPLETE_INFO and hands out no request, and main is on its way out with
\* EXIT_FAILURE without any request given to the transport.
C13_NoSerialNoSend ==
    NoSerialNumber
        => /\ idevice_activation_request_new_from_lockdownd(
                  "MOBILE_ACTIVATION", device[1].info, device[1].ainfo)
                  = Made("INCOMPLETE_INFO", NULL)
           /\ request = NULL
           /\ sent = NULL /\ lpc = "idle" /\ wire = <<>> /\ response = NULL
           /\ pc \in {"cleanup", "exit"}
           /\ exit_status = "EXIT_FAILURE"

\* C13 witness: main has ended for a device whose "SerialNumber" is no string
C13_Witness ==
    /\ NoSerialNumber
    /\ device[1].info # NULL
    /\ pc = "exit"
    /\ message = "Failed to create activation request."


-----------------------------------------------------------------------------
(* Claims about what a call of send_request leaves behind *)

-----------------------------------------------------------------------------
(* Claims about the resubmitted request *)

\* C15 as stated: the request made for a resubmission has the client type and
\* the URL of the request of the round before.
C15_ResubmitKeepsIdentityAndUrl ==
    [][AwaitingInput /\ pc' = "prompt"
          => /\ request'[1].client_type = request[1].client_type
             /\ request'[1].url = request[1].url]_vars


\* the prompts issued in this round for that key
PromptsFor(key) == {i \in 1..Len(prompts) : prompts[i].key = key}

\* C16 as stated: when the prompt loop of a round is over, the request holds
\* exactly the fields of the server's response; a field that requires input
\* was asked for once, with its label if there is one and else its key, and
\* holds the value the input gave; any other field was not asked for and holds
\* the server's value.
C16_ResubmittedFields ==
    pc = "prompt" /\ iter = plist_dict_get_size(fields[1])
    => LET server == response[1].fields[1]
           label(key) == idevice_activation_response_get_label(response[1], key)
           required(key) ==
               plist_dict_get_item(Some(response[1].fields_require_input), key) # NULL
       IN  /\ plist_dict_get_size(request[1].fields) = plist_dict_get_size(server)
           /\ \A e \in 1..Len(server.sub) :
                 LET key == server.sub[e].k
                     value == plist_dict_get_item(Some(request[1].fields), key)
                 IN  IF required(key)
                     THEN /\ Cardinality(PromptsFor(key)) = 1
                          /\ \A i \in PromptsFor(key) :
                                /\ prompts[i].text =
                                      (IF label(key) # NULL THEN label(key)[1] ELSE key)
                                /\ prompts[i].answer # NULL
                                /\ value = Some(PlistString(prompts[i].answer[1]))
                     ELSE /\ PromptsFor(key) = {}
                          /\ value = Some(server.sub[e].n)

\* the same, except that a prompt that met the end of the input gave nothing
C16_ResubmittedFieldsWhenAnswered ==
    /\ pc = "prompt" /\ iter = plist_dict_get_size(fields[1])
    /\ \A i \in 1..Len(prompts) : prompts[i].answer # NULL
    => C16_ResubmittedFields


\* idevice_activation_response_field_secure_input
idevice_activation_response_field_secure_input(resp, key) ==
    plist_dict_get_item(Some(resp.fields_secure_input), key) # NULL

\* C17 as stated: every prompt issued for a field the response flags as
\* secure input is made without echo.
C17_SecureNoEcho ==
    pc = "prompt"
    => \A i \in 1..Len(prompts) :
          idevice_activation_response_field_secure_input(response[1], prompts[i].key)
              => ~prompts[i].echo


-----------------------------------------------------------------------------
(* Claims about the exit code *)

\* the last line main printed tells of a success
SuccessLines ==
    {"Successfully activated device.", "Successfully deactivated device.",
     "Activation server reports that device is already activated.", "version"}

\* the help was asked for
HelpAsked == \E i \in 1..Len(argv) : argv[i] \in {"-h", "--help"}

\* C18 as stated: main returns 0 only on success: after an activation or
\* deactivation that succeeded, an acknowledgment, or help or the version
\* asked for; every errored outcome and every argument error (unknown
\* argument, missing command, missing or malformed option value) returns
\* non-zero.
C18_ExitCodes ==
    pc = "exit" /\ exit_status = "EXIT_SUCCESS"
        => message \in SuccessLines \/ (message = "usage" /\ HelpAsked)

\* the same for every command line but those with an unknown argument
C18_ExitCodesOfKnownArguments ==
    /\ pc = "exit" /\ exit_status = "EXIT_SUCCESS"
    /\ \A i \in 1..Len(argv) : argv[i] \notin {"--frobnicate", "Activate"}
    => message \in SuccessLines \/ (message = "usage" /\ HelpAsked)

-----------------------------------------------------------------------------
(* thread_once *)

\* the thread's latest call of thread_once has returned
CallReturned(t) ==
    threads[t].pc = "returned" \/ (threads[t].pc = "idle" /\ threads[t].calls > 0)

\* C19: however many threads call thread_once on one control block, its
\* routine is entered at most once, and a call that has returned finds that
\* one run begun and ended; init_once and deinit_once are counted apart, so
\* the library's init and deinit each run at most once.
C19_RoutineRunsOnce ==
    \A c \in Controls :
        /\ routine[c].begun <= 1
        /\ routine[c].ended <= routine[c].begun
        /\ \A t \in Threads :
               CallReturned(t) /\ threads[t].control = c
                   => routine[c].begun = 1 /\ routine[c].ended = 1

\* two threads are back from thread_once(&init_once), one of them from its
\* second call, a third is back from thread_once(&deinit_once), and each
\* routine has run
C19_Witness ==
    \E t1, t2, t3 \in Threads :
        /\ t1 # t2
        /\ threads[t1].pc = "returned" /\ threads[t1].control = "init_once"
        /\ threads[t1].calls = 2
        /\ threads[t2].pc = "returned" /\ threads[t2].control = "init_once"
        /\ threads[t3].pc = "returned" /\ threads[t3].control = "deinit_once"
        /\ routine["init_once"].ended = 1
        /\ routine["deinit_once"].ended = 1

-----------------------------------------------------------------------------
(* Requests built with the public operations *)

\* C20: whatever sequence of request_new, set_field, set_fields,
\* set_fields_from_response and set_url made the request, a form-urlencoded
\* request holds only strings, and sending a request made this way never
\* returns UNSUPPORTED_FIELD_TYPE.
C20_UrlEncodedHoldsStrings ==
    /\ request # NULL /\ request[1].content_type = "URL_ENCODED"
           => AllStrings(request[1].fields)
    /\ lpc = "returned" => result # "UNSUPPORTED_FIELD_TYPE"

\* a request that got a non-string field next to a string one was widened
\* to multipart and has been encoded
C20_Witness ==
    /\ request # NULL
    /\ request[1].content_type = "MULTIPART_FORMDATA"
    /\ Len(request[1].fields.sub) = 2
    /\ \E i, j \in 1..2 : /\ request[1].fields.sub[i].n.t = "string"
                          /\ request[1].fields.sub[j].n.t = "bool"
    /\ lpc = "returned"
    /\ result = "SUCCESS"

\* C21: a setter changes a request's content type only in set_fields (also
\* when reached through set_fields_from_response), only from form-urlencoded
\* to multipart, and only when a non-string value was merged; so a multipart
\* request never goes back and a handshake request stays a property list.
C21_ContentTypeChanges ==
    [][/\ SetField \/ SetUrl => request'[1].content_type = request[1].content_type
       /\ SetFields \/ SetFieldsFromResponse =>
              \/ request'[1].content_type = request[1].content_type
              \/ /\ request[1].content_type = "URL_ENCODED"
                 /\ request'[1].content_type = "MULTIPART_FORMDATA"
                 /\ ~AllStrings(request'[1].fields)]_vars

\* a handshake request that was given a non-string field, a string field and
\* another URL is still a property list
C21_Witness ==
    /\ request # NULL
    /\ request[1].content_type = "PLIST"
    /\ request[1].url = ServiceUrl
    /\ Len(request[1].fields.sub) = 2
    /\ ~AllStrings(request[1].fields)
    /\ \E i \in 1..2 : request[1].fields.sub[i].n.t = "string"

-----------------------------------------------------------------------------
(* Claims about replies that carry no record *)

\* the body is a dictionary without "ActivationRecord" whose legacy wrapper,
\* "iphone-activation" or else "device-activation", has no
\* "activation-record" and no true "ack-received"
BareLegacyWrapper(raw) ==
    LET plist == plist_from_xml(raw)
        first == plist_dict_get_item(plist, K.iphone_activation)
        wrapper == IF first = NULL THEN plist_dict_get_item(plist, K.device_activation)
                   ELSE first
    IN  /\ plist # NULL
        /\ plist[1].t = "dict"
        /\ plist_dict_get_item(plist, K.ActivationRecord) = NULL
        /\ wrapper # NULL
        /\ plist_dict_get_item(wrapper, K.activation_record) = NULL
        /\ ~AckReceived(wrapper)

\* the body is a dictionary one of whose legacy wrappers, "iphone-activation"
\* or "device-activation", has no "activation-record" and no true
\* "ack-received"
SomeBareLegacyWrapper(raw) ==
    LET plist == plist_from_xml(raw)
    IN  /\ plist # NULL
        /\ plist[1].t = "dict"
        /\ \E i \in 1..Len(plist[1].sub) :
              /\ plist[1].sub[i].k \in {K.iphone_activation, K.device_activation}
              /\ plist_dict_get_item(Some(plist[1].sub[i].n), K.activation_record) = NULL
              /\ ~AckReceived(Some(plist[1].sub[i].n))

\* the response in main's hands came from such a body
SomeBareLegacyReply ==
    /\ response # NULL
    /\ response[1].content_type = "PLIST"
    /\ SomeBareLegacyWrapper(response[1].raw_content)

\* the same for the wrapper the parser looks into
BareLegacyReply ==
    /\ response # NULL
    /\ response[1].content_type = "PLIST"
    /\ BareLegacyWrapper(response[1].raw_content)

\* C22 as stated: a structured-document body that has a legacy wrapper
\* without "activation-record" and true "ack-received" parses with success
\* into a response without record, acknowledgment and error whose fields are
\* the whole document, none of them requiring input; main takes it as
\* AwaitingInput, asks for nothing, and sends a request that holds the
\* document's entries as they came.
C22_SomeBareLegacyWrapperResubmitted ==
    /\ [](/\ Parsed
          /\ tmp_response[1].content_type = "PLIST"
          /\ SomeBareLegacyWrapper(tmp_response[1].raw_content)
          => /\ result = "SUCCESS"
             /\ response = tmp_response
             /\ response[1].activation_record = NULL
             /\ ~response[1].is_activation_ack
             /\ ~response[1].has_errors
             /\ response[1].fields = plist_from_xml(response[1].raw_content)
             /\ plist_dict_get_size(response[1].fields_require_input) = 0)
    /\ [][/\ pc = "sent" /\ lpc = "returned" /\ result = "SUCCESS" /\ SomeBareLegacyReply
             /\ pc' # "sent"
             => AwaitingInput'
          /\ AwaitingInput /\ SomeBareLegacyReply /\ pc' # pc
             => pc' = "prompt" /\ request'[1].fields = response[1].fields[1]
          /\ pc = "prompt" /\ SomeBareLegacyReply /\ pc' # pc
             => /\ pc' = "send"
                /\ prompts = <<>>
                /\ request' = request
                /\ request[1].fields = response[1].fields[1]
          /\ pc = "send" /\ pc' # pc
             => /\ pc' = "sent"
                /\ lpc' = "perform"
                   => sent' = Some(Sent(request[1],
                                       EncodeRequest(request[1], char_signed, oob_zero)))]_vars

\* C22 amended: the same for a body without top-level "ActivationRecord"
\* whose wrapper is the one the parser looks into, "iphone-activation" or,
\* when that is absent, "device-activation".
C22_BareLegacyWrapperResubmitted ==
    /\ [](/\ Parsed
          /\ tmp_response[1].content_type = "PLIST"
          /\ BareLegacyWrapper(tmp_response[1].raw_content)
          => /\ result = "SUCCESS"
             /\ response = tmp_response
             /\ response[1].activation_record = NULL
             /\ ~response[1].is_activation_ack
             /\ ~response[1].has_errors
             /\ response[1].fields = plist_from_xml(response[1].raw_content)
             /\ plist_dict_get_size(response[1].fields_require_input) = 0)
    /\ [][/\ pc = "sent" /\ lpc = "returned" /\ result = "SUCCESS" /\ BareLegacyReply
             /\ pc' # "sent"
             => AwaitingInput'
          /\ AwaitingInput /\ BareLegacyReply /\ pc' # pc
             => pc' = "prompt" /\ request'[1].fields = response[1].fields[1]
          /\ pc = "prompt" /\ BareLegacyReply /\ pc' # pc
             => /\ pc' = "send"
                /\ prompts = <<>>
                /\ request' = request
                /\ request[1].fields = response[1].fields[1]
          /\ pc = "send" /\ pc' # pc
             => /\ pc' = "sent"
                /\ lpc' = "perform"
                   => sent' = Some(Sent(request[1],
                                       EncodeRequest(request[1], char_signed, oob_zero)))]_vars

\* the request made of a bare legacy wrapper is on its way, the document's
\* entry in it
C22_Witness ==
    /\ pc = "sent"
    /\ lpc = "perform"
    /\ response = NULL
    /\ prompts = <<>>
    /\ fields # NULL
    /\ BareLegacyWrapper(Bytes("P6"))
    /\ fields = plist_from_xml(Bytes("P6"))
    /\ request[1].fields = fields[1]
    /\ sent # NULL
    /\ sent[1].kind = "form"

-----------------------------------------------------------------------------
(* Claims about the session handshake *)

\* the handshake request goes to the transport
HandshakeSent == NetSend /\ pc = "handshake"

-----------------------------------------------------------------------------
(* Claims about the structured-document parser *)

\* C24: parsing a structured-document body with a top-level
\* "HandshakeResponseMessage" entry succeeds and changes nothing in the
\* response but its fields, which become the whole document: no record, no
\* acknowledgment and no error come of it, whatever else the document holds.
C24_HandshakeReply ==
    /\ Parsed
    /\ tmp_response[1].content_type = "PLIST"
    /\ HasEntry(tmp_response[1].raw_content, K.HandshakeResponseMessage)
    => /\ result = "SUCCESS"
       /\ response = tmp_response
       /\ tmp_response[1] =
             [idevice_activation_response_new EXCEPT
                !.content_type = "PLIST",
                !.raw_content = tmp_response[1].raw_content,
                !.fields = plist_from_xml(tmp_response[1].raw_content)]

\* a handshake reply that also holds an acknowledged "ActivationRecord" has
\* been parsed
C24_Witness ==
    /\ Parsed
    /\ tmp_response[1].content_type = "PLIST"
    /\ tmp_response[1].raw_content = Bytes("PE")
    /\ HasEntry(Bytes("PE"), K.HandshakeResponseMessage)
    /\ HasEntry(Bytes("PE"), K.ActivationRecord)
    /\ tmp_response[1].activation_record = NULL
    /\ tmp_response[1].fields # NULL

\* C25: parsing a structured-document body returns PLIST_PARSING_ERROR when
\* the body is no property list and when the document has none of
\* "HandshakeResponseMessage", "ActivationRecord", "iphone-activation" and
\* "device-activation" at its top level, and success in every other case.
C25_PlistParsingError ==
    /\ Parsed
    /\ tmp_response[1].content_type = "PLIST"
    => result =
          IF \/ plist_from_xml(tmp_response[1].raw_content) = NULL
             \/ \A key \in {K.HandshakeResponseMessage, K.ActivationRecord,
                             K.iphone_activation, K.device_activation} :
                   ~HasEntry(tmp_response[1].raw_content, key)
          THEN "PLIST_PARSING_ERROR"
          ELSE "SUCCESS"

\* a property list that has none of the four entries has been refused
C25_Witness ==
    /\ Parsed
    /\ tmp_response[1].content_type = "PLIST"
    /\ plist_from_xml(tmp_response[1].raw_content) # NULL
    /\ plist_from_xml(tmp_response[1].raw_content)[1].t = "dict"
    /\ result = "PLIST_PARSING_ERROR"
    /\ response = NULL

-----------------------------------------------------------------------------
(* Claims about the HTML parser *)

\* the response as it is when the HTML parser is called
HtmlUnparsed(raw) ==
    [idevice_activation_response_new EXCEPT !.content_type = "HTML", !.raw_content = raw]

\* the document has an input element isAuthRequired with value true
HasAuthInput(raw) ==
    /\ xmlReadMemory(raw, TRUE) # NULL
    /\ HasNodes(xmlReadMemory(raw, TRUE)[1].auth_input)

\* the document has an embedded property list script block
HasPlistScript(raw) ==
    /\ xmlReadMemory(raw, TRUE) # NULL
    /\ HasNodes(xmlReadMemory(raw, TRUE)[1].plist_script)

\* what the record extraction of the structured-document parser yields for
\* the payload of a script block; no payload and a payload that is no
\* property list are PLIST_PARSING_ERROR
ExtractionOf(raw, dump) ==
    IF dump = NULL \/ plist_from_xml(dump[1]) = NULL
    THEN Ret("PLIST_PARSING_ERROR", HtmlUnparsed(raw))
    ELSE idevice_activation_activation_record_from_plist(
            HtmlUnparsed(raw), plist_from_xml(dump[1]))

\* the outcome the three branches give
ThreeBranches(raw) ==
    IF HasAuthInput(raw)
    THEN Ret("SUCCESS", [HtmlUnparsed(raw) EXCEPT !.is_auth_required = TRUE])
    ELSE IF HasPlistScript(raw)
    THEN ExtractionOf(raw, xmlReadMemory(raw, TRUE)[1].plist_script.nodes[1].dump)
    ELSE Ret("SUCCESS", [HtmlUnparsed(raw) EXCEPT !.has_errors = TRUE])

\* C27 as stated: the HTML parser takes exactly one of three branches: with
\* an input element isAuthRequired of value true it sets is_auth_required and
\* nothing else; else with an embedded property list its result, flags and
\* record are those of the record extraction for that payload; else it sets
\* has_errors.
C27_ThreeBranches ==
    Parsed /\ tmp_response[1].content_type = "HTML"
        => Ret(result, tmp_response[1]) = ThreeBranches(tmp_response[1].raw_content)

\* C27 amended: the same for a body the XML library makes a document of and
\* whose script node, when that branch is taken, can be written out; a body
\* of no bytes and a node that cannot be written out give HTML_PARSING_ERROR
\* and set nothing.
C27_ThreeBranchesOfADocument ==
    Parsed /\ tmp_response[1].content_type = "HTML"
        => LET raw == tmp_response[1].raw_content
               doc == xmlReadMemory(raw, TRUE)
           IN  IF \/ doc = NULL
                  \/ /\ ~HasAuthInput(raw)
                     /\ HasPlistScript(raw)
                     /\ doc[1].plist_script.nodes[1].dump = NULL
               THEN result = "HTML_PARSING_ERROR" /\ tmp_response[1] = HtmlUnparsed(raw)
               ELSE Ret(result, tmp_response[1]) = ThreeBranches(raw)

\* a page with the isAuthRequired input and an acknowledged record in a
\* script block has been parsed: the input alone counts
C27_Witness ==
    /\ Parsed
    /\ tmp_response[1].content_type = "HTML"
    /\ HasAuthInput(tmp_response[1].raw_content)
    /\ HasPlistScript(tmp_response[1].raw_content)
    /\ tmp_response[1].is_auth_required
    /\ ~tmp_response[1].is_activation_ack
    /\ tmp_response[1].activation_record = NULL

-----------------------------------------------------------------------------
(* Claims about transfers that bring no dialect *)

\* send_request has returned from a transfer in which no recognised
\* Content-Type header came
UnknownDialectReturned ==
    /\ lpc = "returned"
    /\ tmp_response # NULL
    /\ tmp_response[1].content_type = "UNKNOWN"

\* C26 as stated: when the transfer fails or ends before a recognised
\* Content-Type header came, send_request returns UNKNOWN_CONTENT_TYPE and
\* assigns no response, and main then leaves with a failure: it sends
\* nothing more.
C26_NoDialectEndsSession ==
    [][/\ UnknownDialectReturned' /\ lpc # "returned"
          => result' = "UNKNOWN_CONTENT_TYPE" /\ response' = response /\ response = NULL
       /\ UnknownDialectReturned /\ pc' # pc
          => pc' = "cleanup" /\ exit_status' = "EXIT_FAILURE"]_vars

\* the same for the activation requests of the loop alone
C26_NoDialectEndsSessionInTheLoop ==
    [][/\ UnknownDialectReturned' /\ lpc # "returned"
          => result' = "UNKNOWN_CONTENT_TYPE" /\ response' = response /\ response = NULL
       /\ UnknownDialectReturned /\ pc = "sent" /\ pc' # pc
          => /\ pc' = "cleanup"
             /\ exit_status' = "EXIT_FAILURE"
             /\ message' = "Failed to send request or retrieve response."]_vars

-----------------------------------------------------------------------------
(* Claims about the fields of an HTML response *)

\* the response of the round is an HTML reply that signals is_auth_required
\* and nothing else
AuthOnlyHtmlReply ==
    /\ response # NULL
    /\ response[1].content_type = "HTML"
    /\ response[1].is_auth_required
    /\ response[1].activation_record = NULL
    /\ ~response[1].is_activation_ack
    /\ ~response[1].has_errors

\* C28: an HTML response never carries fields: its field set is empty
\* whichever branch the HTML parser takes, so an HTML reply that only signals
\* is_auth_required (no record, no acknowledgment, no error) ends the session
\* in failure with "Unknown error." and does not reach AwaitingInput.
C28_HtmlCarriesNoFields ==
    /\ [](/\ Parsed /\ tmp_response[1].content_type = "HTML"
             => tmp_response[1].fields = Some(plist_new_dict)
          /\ response # NULL /\ response[1].content_type = "HTML"
             => response[1].fields = Some(plist_new_dict))
    /\ [][pc = "sent" /\ lpc = "returned" /\ result = "SUCCESS"
          /\ AuthOnlyHtmlReply /\ pc' # pc
          => /\ pc' = "cleanup"
             /\ message' = "Unknown error."
             /\ exit_status' = "EXIT_FAILURE"
             /\ ~AwaitingInput']_vars

\* C28 witness: the session has ended with "Unknown error." on an HTML reply
\* that asked for authentication and brought nothing else
C28_Witness ==
    /\ pc = "cleanup"
    /\ message = "Unknown error."
    /\ exit_status = "EXIT_FAILURE"
    /\ AuthOnlyHtmlReply
    /\ HasAuthInput(response[1].raw_content)
    /\ fields = Some(plist_new_dict)

-----------------------------------------------------------------------------
(* Claims about the order of the BuddyML parser *)

\* the document xmlReadMemory makes of the body has no navigation-bar title
\* directly under its root and has a clientInfo with ack-received='true'
AckedPage(raw) ==
    /\ xmlReadMemory(raw, FALSE) # NULL
    /\ ~HasNodes(xmlReadMemory(raw, FALSE)[1].root_nav_title)
    /\ HasNodes(xmlReadMemory(raw, FALSE)[1].client_info_ack)

\* C29: in the BuddyML parser the first terminal condition wins: without a
\* root-level navigation bar and with a client-info element that has
\* ack-received='true', is_activation_ack is set, title, description, fields
\* and is_auth_required are not extracted and has_errors stays false; and the
\* BuddyML parser never sets both has_errors and is_activation_ack.
C29_FirstTerminalWins ==
    /\ Parsed
    /\ tmp_response[1].content_type = "BUDDYML"
    => /\ AckedPage(tmp_response[1].raw_content)
          => /\ result = "SUCCESS"
             /\ response = tmp_response
             /\ tmp_response[1] =
                   [idevice_activation_response_new EXCEPT
                      !.content_type = "BUDDYML",
                      !.raw_content = tmp_response[1].raw_content,
                      !.is_activation_ack = TRUE]
       /\ ~(tmp_response[1].has_errors /\ tmp_response[1].is_activation_ack)

\* C29 witness: an acknowledgment on top of a page with an alert, a titled
\* navigation bar, a footer, an input row and an isAuthRequired attribute has
\* been parsed
C29_Witness ==
    /\ Parsed
    /\ tmp_response[1].content_type = "BUDDYML"
    /\ tmp_response[1].raw_content = Bytes("B4")
    /\ AckedPage(tmp_response[1].raw_content)
    /\ tmp_response[1].is_activation_ack
    /\ tmp_response[1].title = NULL
    /\ tmp_response[1].fields = Some(plist_new_dict)
    /\ ~tmp_response[1].is_auth_required

-----------------------------------------------------------------------------
(* Claims about the input rows of a BuddyML page *)

\* the editableTextRow nodes and the serverInfo attributes of the document
\* xmlReadMemory makes of the body
RowsOf(raw) == xmlReadMemory(raw, FALSE)[1].rows.nodes
InfoOf(raw) == xmlReadMemory(raw, FALSE)[1].server_info.nodes

\* the entry of a dictionary of the response under the id of a row
FieldOfRow(dict, row) == plist_dict_get_item(Some(dict), row.id[1])

\* the parser comes to the loop over the input rows of this body: no error
\* screen, no acknowledgment, a title to read and a node set of footers
RowsReached(raw) ==
    /\ xmlReadMemory(raw, FALSE) # NULL
    /\ LET doc == xmlReadMemory(raw, FALSE)[1]
       IN  /\ ~HasNodes(doc.root_nav_title)
           /\ ~HasNodes(doc.client_info_ack)
           /\ HasNodes(doc.alert_title) \/ HasNodes(doc.page_nav_title)
           /\ ~doc.footers.null

-----------------------------------------------------------------------------
(* Claims about the server info of a BuddyML page *)

\* the parser comes to the loop over the serverInfo attributes of this body:
\* it comes to the input rows and each of them has an id
InfoReached(raw) ==
    /\ RowsReached(raw)
    /\ \A i \in 1..Len(RowsOf(raw)) : RowsOf(raw)[i].id # NULL

\* the last of the serverInfo attributes that has this name
LastNamed(info, name) ==
    info[CHOOSE k \in 1..Len(info) :
            /\ info[k].name = name
            /\ \A l \in (k + 1)..Len(info) : info[l].name # name]

-----------------------------------------------------------------------------
(* Claims about the per-field metadata of a response *)

\* the keys of a dictionary
KeysOf(dict) == {dict.sub[i].k : i \in 1..Len(dict.sub)}

\* C32: in every response the per-field metadata refers only to existing
\* fields: every key flagged secure_input is also flagged requires_input, and
\* every key that is flagged requires_input or has a label or a placeholder
\* is a key of the field set; responses of the structured-document and HTML
\* dialects have no per-field metadata at all.
C32_MetadataOfFields ==
    tmp_response # NULL
    => LET resp == tmp_response[1]
       IN  /\ KeysOf(resp.fields_secure_input) \subseteq KeysOf(resp.fields_require_input)
           /\ KeysOf(resp.fields_require_input) \cup KeysOf(resp.labels)
                 \cup KeysOf(resp.labels_placeholder) \subseteq KeysOf(resp.fields[1])
           /\ resp.content_type \in {"PLIST", "HTML"}
              => /\ resp.fields_require_input = plist_new_dict
                 /\ resp.fields_secure_input = plist_new_dict
                 /\ resp.labels = plist_new_dict
                 /\ resp.labels_placeholder = plist_new_dict

\* C32 witness: a sign-in form with a labelled login row and a secure
\* password row with a placeholder has been parsed
C32_Witness ==
    /\ Parsed
    /\ tmp_response[1].content_type = "BUDDYML"
    /\ result = "SUCCESS"
    /\ KeysOf(tmp_response[1].fields_secure_input) = {Bytes("password")}
    /\ KeysOf(tmp_response[1].fields_require_input) = {Bytes("login"), Bytes("password")}
    /\ KeysOf(tmp_response[1].labels) = {Bytes("login")}
    /\ KeysOf(tmp_response[1].labels_placeholder) = {Bytes("password")}
    /\ Cardinality(KeysOf(tmp_response[1].fields[1])) = 4

-----------------------------------------------------------------------------
(* Claims about applying the record *)

\* C33: in RecordReady the record applied to the device is the one of the
\* current round's response, and in session mode it is applied together with
\* the headers of that same response; the tool reports success only if
\* applying the record and then setting ActivationStateAcknowledged both
\* succeed, and exits with failure otherwise.
C33_RecordApplied ==
    /\ [](session_mode => use_mobileactivation)
    /\ [][RecordReady /\ pc' # pc
          => /\ pc' = "cleanup"
             /\ applied' # applied
                => /\ Some(applied'[1].record) = response[1].activation_record
                   /\ applied'[1].headers =
                         IF session_mode THEN Some(response[1].headers) ELSE NULL
             /\ exit_status' = "EXIT_SUCCESS"
                <=> applied' # applied /\ applied'[1].acknowledged
             /\ exit_status' # "EXIT_SUCCESS" => exit_status' = "EXIT_FAILURE"
             /\ exit_status' = "EXIT_SUCCESS"
                <=> message' = "Successfully activated device."]_vars

\* C33 witness: in session mode a record has been applied with the headers of
\* the response that brought it, acknowledged, and success reported
C33_Witness ==
    /\ pc = "cleanup"
    /\ session_mode
    /\ message = "Successfully activated device."
    /\ exit_status = "EXIT_SUCCESS"
    /\ applied # NULL
    /\ applied[1].acknowledged
    /\ Some(applied[1].record) = response[1].activation_record
    /\ applied[1].headers = Some(response[1].headers)
    /\ plist_dict_get_size(response[1].headers) > 0

-----------------------------------------------------------------------------
(* Claims about the callbacks of one transfer *)

\* the header lines and the body chunks among what has been delivered
Select(events, kind) == SelectSeq(events, LAMBDA e : e.kind = kind)

\* the response after the header callback has been given these lines alone
RECURSIVE AfterHeaders(_, _)
AfterHeaders(resp, events) ==
    IF events = <<>> THEN resp
    ELSE AfterHeaders(idevice_activation_header_callback(resp, Head(events).data), Tail(events))

\* the chunks one after the other, and the sum of their sizes
RECURSIVE Concatenated(_)
Concatenated(events) ==
    IF events = <<>> THEN <<>> ELSE Head(events).data \o Concatenated(Tail(events))
RECURSIVE SizeSum(_)
SizeSum(events) ==
    IF events = <<>> THEN 0 ELSE Len(Head(events).data) + SizeSum(Tail(events))

\* C34: the classified dialect depends only on the header lines received, not
\* on the body bytes nor on how header and body callbacks interleave, and
\* body parsing starts only after the transfer has finished; the raw content
\* seen by the parser is the concatenation of all body chunks in arrival
\* order, with size equal to the sum of the chunk sizes.
C34_CallbacksOfATransfer ==
    /\ [](lpc = "perform" \/ Parsed
          => LET lines == Select(delivered, "header")
                 chunks == Select(delivered, "body")
                 classified == AfterHeaders(idevice_activation_response_new, lines)
             IN  /\ tmp_response[1].content_type = classified.content_type
                 /\ tmp_response[1].headers = classified.headers
                 /\ tmp_response[1].raw_content = Concatenated(chunks)
                 /\ raw_content_size(tmp_response[1]) = SizeSum(chunks)
                 /\ lpc = "perform"
                    => tmp_response[1] =
                          [classified EXCEPT !.raw_content = Concatenated(chunks)])
    /\ [][lpc = "perform" /\ lpc' # lpc
          => /\ wire = <<>>
             /\ Ret(result', tmp_response'[1])
                   = idevice_activation_parse_raw_response(tmp_response[1])]_vars

\* C34 witness: a transfer whose header lines came between and after the
\* pieces of the body has been parsed as a structured document
C34_Witness ==
    /\ Parsed
    /\ Len(delivered) = 4
    /\ delivered[1].kind = "body"
    /\ delivered[2].kind = "header"
    /\ delivered[3].kind = "body"
    /\ delivered[4].kind = "header"
    /\ tmp_response[1].content_type = "PLIST"
    /\ tmp_response[1].raw_content = Bytes("P2")
    /\ result = "SUCCESS"
    /\ tmp_response[1].activation_record # NULL

-----------------------------------------------------------------------------
(* Claims about several Content-Type headers in one transfer *)

\* the delivered Content-Type headers whose value selects a dialect
RecognisedLines ==
    {i \in ContentTypeLines : ClaimedDialect(HeaderValue(delivered[i].data)[1]) # "UNKNOWN"}

\* the dialect of the last of them, "unknown" when there is none
LastRecognised ==
    IF RecognisedLines = {} THEN "UNKNOWN"
    ELSE ClaimedDialect(HeaderValue(
            delivered[CHOOSE i \in RecognisedLines : \A j \in RecognisedLines : j <= i].data)[1])

\* C35: when several Content-Type headers arrive during one transfer, the
\* dialect is that of the last header with a recognised value: a later
\* Content-Type with an unrecognised value does not reset the dialect to
\* "unknown", so the body is parsed with the earlier dialect.
C35_LastRecognisedDialect ==
    /\ [](lpc = "perform" \/ Parsed => tmp_response[1].content_type = LastRecognised)
    /\ [][lpc = "perform" /\ lpc' # lpc
          => Ret(result', tmp_response'[1])
                = idevice_activation_parse_raw_response(
                     [tmp_response[1] EXCEPT !.content_type = LastRecognised])]_vars

\* C35 witness: text/html came, then application/json, and the body has been
\* parsed as HTML
C35_Witness ==
    /\ Parsed
    /\ Cardinality(ContentTypeLines) = 2
    /\ Cardinality(RecognisedLines) = 1
    /\ \E i \in RecognisedLines : \E j \in ContentTypeLines : i < j
    /\ tmp_response[1].content_type = "HTML"
    /\ tmp_response[1].raw_content = Bytes("H1")
    /\ result = "SUCCESS"
    /\ tmp_response[1].is_auth_required

-----------------------------------------------------------------------------
(* Claims about the retained headers *)

\* the delivered lines "Name: value", and those of them whose value is not empty
ValuedLines == {i \in 1..Len(delivered) : HeaderValue(delivered[i].data) # NULL}
NonEmptyLines == {i \in ValuedLines : HeaderValue(delivered[i].data)[1] # <<>>}

\* the headers hold one entry for each name of these lines and nothing else,
\* each with the value of the latest of the lines of that name
RetainedFrom(lines) ==
    LET headers == tmp_response[1].headers
    IN  /\ KeysOf(headers) = {HeaderName(delivered[i].data) : i \in lines}
        /\ Len(headers.sub) = Cardinality(KeysOf(headers))
        /\ \A i \in lines :
              (\A j \in lines :
                  HeaderName(delivered[j].data) = HeaderName(delivered[i].data) => j <= i)
              => plist_dict_get_item(Some(headers), HeaderName(delivered[i].data))
                    = Some(PlistString(HeaderValue(delivered[i].data)[1]))

\* C36 as stated: every received header line of the form "Name: value" with a
\* non-empty value is retained in the response's headers under Name with that
\* value, the Content-Type header included; when the same name is received
\* more than once the headers hold a single entry for it with the latest
\* value, and lines without a colon or with an empty value add no entry.
C36_HeadersRetained == RetainedFrom(NonEmptyLines)

\* the same with the lines that end after the spaces that follow the colon
\* as the only ones without a value: "Name:\r\n" has the empty value
C36_HeadersRetainedWithEmptyValues == RetainedFrom(ValuedLines)

-----------------------------------------------------------------------------
(* Claims about the device-derived constructor *)

\* the device has a value of this type under this key
HasTyped(info, key, type) ==
    /\ plist_dict_get_item(info, key) # NULL
    /\ plist_dict_get_item(info, key)[1].t = type

\* SerialNumber (string) and ActivationInfo (dictionary) are available, and
\* with telephony capability at least one of IMEI and MEID
InfoComplete(d) ==
    /\ HasTyped(d.info, LK.SerialNumber, "string")
    /\ d.ainfo # NULL /\ d.ainfo[1].t = "dict"
    /\ plist_dict_get_item(d.info, LK.TelephonyCapability) = Some(PlistBool(TRUE))
       => \/ HasTyped(d.info, LK.InternationalMobileEquipmentIdentity, "string")
          \/ HasTyped(d.info, LK.MobileEquipmentIdentifier, "string")

\* the request a successful call hands out holds InStoreActivation="false",
\* AppleSerialNumber and activation-info and is multipart-form
RequestOfDevice(req, d) ==
    /\ req # NULL
    /\ req[1].content_type = "MULTIPART_FORMDATA"
    /\ plist_dict_get_item(Some(req[1].fields), LK.InStoreActivation)
          = Some(PlistString(S_false))
    /\ plist_dict_get_item(Some(req[1].fields), LK.AppleSerialNumber)
          = plist_dict_get_item(d.info, LK.SerialNumber)
    /\ plist_dict_get_item(Some(req[1].fields), LK.activation_info) = d.ainfo

\* C37 as stated: building a request from the device succeeds only if
\* SerialNumber (string) and ActivationInfo (dictionary) are both available,
\* and, when the device reports telephony capability, at least one of IMEI
\* and MEID; IMSI and ICCID are optional.  On success the field set holds
\* InStoreActivation="false", AppleSerialNumber and activation-info and the
\* content type is multipart-form; on every failure the result is
\* INCOMPLETE_INFO and no request is handed out.
C37_RequestFromDevice ==
    [][/\ result' = "SUCCESS" <=> device' # NULL /\ InfoComplete(device'[1])
       /\ result' = "SUCCESS" => RequestOfDevice(request', device'[1])
       /\ result' # "SUCCESS" => result' = "INCOMPLETE_INFO" /\ request' = request]_vars

\* C37 with the failure of a call without lockdown client set apart: that
\* call returns INTERNAL_ERROR, every failure for lack of device values
\* INCOMPLETE_INFO.
C37_RequestFromDeviceWithClient ==
    [][/\ result' = "SUCCESS" <=> device' # NULL /\ InfoComplete(device'[1])
       /\ result' = "SUCCESS" => RequestOfDevice(request', device'[1])
       /\ result' # "SUCCESS"
          => /\ result' = IF device' = NULL THEN "INTERNAL_ERROR" ELSE "INCOMPLETE_INFO"
             /\ request' = request]_vars

\* C37 witness: a request has been made of a device with telephony capability
\* that has an MEID and neither IMEI, IMSI nor ICCID
C37_Witness ==
    /\ result = "SUCCESS"
    /\ device # NULL
    /\ plist_dict_get_item(device[1].info, LK.TelephonyCapability) = Some(PlistBool(TRUE))
    /\ plist_dict_get_item(device[1].info, LK.InternationalMobileEquipmentIdentity) = NULL
    /\ plist_dict_get_item(device[1].info, LK.InternationalMobileSubscriberIdentity) = NULL
    /\ plist_dict_get_item(device[1].info, LK.IntegratedCircuitCardIdentity) = NULL
    /\ RequestOfDevice(request, device[1])
    /\ KeysOf(request[1].fields)
          = {LK.InStoreActivation, LK.AppleSerialNumber, LK.MEID, LK.activation_info}

-----------------------------------------------------------------------------
(* Claims about the constructors and the setters *)

\* the request after the step has this content type and this URL
Defaults(content, u) ==
    /\ request' # NULL
    /\ request'[1].content_type = content
    /\ request'[1].url = u

\* C38: the three constructors set distinct defaults and the setters keep
\* them apart: the plain constructor gives form-urlencoded, the default
\* activation URL and an empty field set; the device-derived constructor
\* gives multipart-form and the default activation URL; the handshake
\* constructor gives structured-document, the handshake URL and an empty
\* field set.  set_url changes only the URL, and set_field / set_fields never
\* change the URL or the client type.  (Each line reads "the step is not this
\* operation, or its outcome is the stated one", the outcome first.)
C38_ConstructorsAndSetters ==
    /\ IDEVICE_ACTIVATION_DEFAULT_URL # IDEVICE_ACTIVATION_DRM_HANDSHAKE_DEFAULT_URL
    /\ [][/\ \/ /\ Defaults("URL_ENCODED", IDEVICE_ACTIVATION_DEFAULT_URL)
                /\ request'[1].fields = plist_new_dict
             \/ ~RequestNew
          /\ \/ /\ Defaults("MULTIPART_FORMDATA", IDEVICE_ACTIVATION_DEFAULT_URL)
                /\ plist_dict_get_size(request'[1].fields) > 0
             \/ ~(RequestNewFromLockdownd(ReqDevices) /\ result' = "SUCCESS")
          /\ \/ /\ Defaults("PLIST", IDEVICE_ACTIVATION_DRM_HANDSHAKE_DEFAULT_URL)
                /\ request'[1].fields = plist_new_dict
             \/ ~HandshakeRequestNew
          /\ \/ request' = request
             \/ request # NULL /\ request' = Some([request[1] EXCEPT !.url = request'[1].url])
             \/ ~SetUrl
          /\ \/ request' = request
             \/ /\ request # NULL
                /\ request'[1].url = request[1].url
                /\ request'[1].client_type = request[1].client_type
             \/ ~(SetField \/ SetFields \/ SetFieldsFromResponse)]_vars

\* C38 witness: a request made of the device holds a field the caller added
\* and the URL the caller set, and is multipart-form still
C38_Witness ==
    /\ request # NULL
    /\ device # NULL
    /\ request[1].content_type = "MULTIPART_FORMDATA"
    /\ request[1].url = ServiceUrl
    /\ request[1].client_type = "ITUNES"
    /\ KeysOf(request[1].fields)
          = {LK.InStoreActivation, LK.AppleSerialNumber, LK.activation_info, Bytes("login")}

=============================================================================
